---- MODULE Spec2Model ----
(***************************************************************************)
(* A model of the social-media agent of src/venv/app.py (class             *)
(* SocialMediaAIAgent).  Text is modelled by TLA+ strings, which TLC       *)
(* treats as sequences of characters (Len, \o, SubSeq, Head, Tail).  A     *)
(* code point outside ASCII in a literal of the source is written "~",     *)
(* one "~" per code point, so that lengths are those Python computes.      *)
(***************************************************************************)
EXTENDS Integers, Sequences, FiniteSets, TLC

VARIABLES
  gemini_model,         \* self.gemini_model is set (app.py:44) or None (app.py:47)
  google_key,           \* os.getenv("GOOGLE_API_KEY") is set
  hf_key,               \* os.getenv("HUGGINGFACE_API_KEY") is set
  twitter_api,          \* self.twitter_api is a client (TRUE) or None (FALSE)
  gen,                  \* the content a call of generate_content returned
  trend,                \* what a call of fetch_trends did and returned
  img,                  \* what a call of get_relevant_image_url returned
  pub,                  \* what a call of post_content did and returned
  posted_content,       \* self.posted_content
  history_file,         \* the file posted_content.json
  clock,                \* the number of post_content calls made: datetime.now()
  mode,                 \* self.mode
  is_running,           \* self.is_running
  production_schedule,  \* self.production_schedule
  jobs,                 \* schedule.jobs, the jobs registered with the schedule library
  threads,              \* the background scheduler threads started so far
  last_op,              \* the scheduler operation that returned last
  manual,               \* the menu thread: "idle", or "posting" inside run_daily_post
  mgr_mode,             \* SocialMediaManager.mode
  mgr_running,          \* SocialMediaManager.running
  mgr_threads,          \* the threads SocialMediaManager.start_production_mode started
  program,              \* the entry point that runs: "app" (app.py) or "main" (main.py)
  op                    \* the load, pipeline cycle or test operation that ran last

envVars == <<gemini_model, google_key, hf_key, twitter_api, program>>

pubVars == <<pub, posted_content, history_file, clock>>

schedVars == <<mode, is_running, production_schedule, jobs, threads, last_op, manual>>

mgrVars == <<mgr_mode, mgr_running, mgr_threads>>

vars == <<gemini_model, google_key, hf_key, twitter_api, gen, trend, img,
          pub, posted_content, history_file, clock,
          mode, is_running, production_schedule, jobs, threads, last_op, manual,
          mgr_mode, mgr_running, mgr_threads, program, op>>

(***************************************************************************)
(* Bounds of the model.                                                    *)
(***************************************************************************)
\* LLM texts have lengths within Slack of a platform's maximum (and 0..Slack)
Slack == 1
\* ... and one length Over characters past the maximum
Over == 10
\* a trends API or the scraped page answers with at most MaxTrends items
MaxTrends == 2
\* the recent search answers with at most MaxTweets tweets
MaxTweets == 1
\* random.sample is modelled by the samples that step through the list by 1..MaxStride
MaxStride == 2
\* the topics of the image lookup have at most MaxTopicWords words
MaxTopicWords == 2
\* a behaviour starts at most MaxThreads scheduler threads
MaxThreads == 3
\* a behaviour calls post_content at most MaxPosts times
MaxPosts == 1
\* one call of run_pending finds at most MaxDue posting jobs due
MaxDue == 2

(***************************************************************************)
(* Python's string operations.                                             *)
(***************************************************************************)
\* Python's None
None == "<None>"

Min(a, b) == IF a < b THEN a ELSE b

SetMin(S) == CHOOSE a \in S : \A b \in S : a <= b

\* s[i-1] in Python
CharAt(s, i) == SubSeq(s, i, i)

CharsOf(s) == {CharAt(s, i) : i \in 1..Len(s)}

\* s[:n], n >= 0
Slice(s, n) == SubSeq(s, 1, Min(n, Len(s)))

\* s.startswith(p)
StartsWith(s, p) == Len(p) <= Len(s) /\ SubSeq(s, 1, Len(p)) = p

\* sub in s
Contains(s, sub) == \E i \in 0..(Len(s) - Len(sub)) : SubSeq(s, i + 1, i + Len(sub)) = sub

UpperLetters == "ABCDEFGHIJKLMNOPQRSTUVWXYZ"

LowerLetters == "abcdefghijklmnopqrstuvwxyz"

Digits == "0123456789"

\* the characters str.split() and str.strip() treat as white space
Whitespace == {" ", "\n", "\t"}

\* the characters the regular expression \w matches
WordChars == CharsOf(LowerLetters \o UpperLetters \o Digits \o "_")

LowerChar(c) ==
  IF c \in CharsOf(UpperLetters)
  THEN CharAt(LowerLetters, CHOOSE i \in 1..Len(UpperLetters) : CharAt(UpperLetters, i) = c)
  ELSE c

\* s.lower()
RECURSIVE Lower(_)
Lower(s) ==
  IF Len(s) = 0 THEN ""
  ELSE IF Len(s) = 1 THEN LowerChar(s)
  ELSE LET h == Len(s) \div 2
       IN Lower(SubSeq(s, 1, h)) \o Lower(SubSeq(s, h + 1, Len(s)))

\* the index of the first character of s at or after i that is not white space
RECURSIVE SkipLeft(_, _)
SkipLeft(s, i) == IF i <= Len(s) /\ CharAt(s, i) \in Whitespace THEN SkipLeft(s, i + 1) ELSE i

\* the index of the last character of s at or before i that is not white space
RECURSIVE SkipRight(_, _)
SkipRight(s, i) == IF i >= 1 /\ CharAt(s, i) \in Whitespace THEN SkipRight(s, i - 1) ELSE i

\* s.strip()
Strip(s) ==
  LET first == SkipLeft(s, 1)
  IN IF first > Len(s) THEN "" ELSE SubSeq(s, first, SkipRight(s, Len(s)))

\* where the maximal runs of characters c of s with (c \in chars) = member start
RunStarts(s, chars, member) ==
  {i \in 1..Len(s) :
     /\ (CharAt(s, i) \in chars) = member
     /\ (i = 1 \/ (CharAt(s, i - 1) \in chars) # member)}

\* where the run that starts at i ends
RunEnd(s, chars, member, i) ==
  LET stops == {j \in i..Len(s) : (CharAt(s, j) \in chars) # member}
  IN IF stops = {} THEN Len(s) ELSE SetMin(stops) - 1

\* the runs, as a set
RunSet(s, chars, member) ==
  {SubSeq(s, i, RunEnd(s, chars, member, i)) : i \in RunStarts(s, chars, member)}

\* the runs, in order
Runs(s, chars, member) ==
  LET starts == RunStarts(s, chars, member)
      kth(k) == CHOOSE i \in starts : Cardinality({j \in starts : j <= i}) = k
  IN [k \in 1..Cardinality(starts) |-> SubSeq(s, kth(k), RunEnd(s, chars, member, kth(k)))]

\* s.split()
Split(s) == Runs(s, Whitespace, FALSE)

\* re.findall(r'\w+', s)
FindWords(s) == Runs(s, WordChars, TRUE)

\* the tokens of s.split(), for a test over them that ignores their order
SplitSet(s) == RunSet(s, Whitespace, FALSE)

\* the words of re.findall(r'\w+', s), for a test over them that ignores their order
FindWordSet(s) == RunSet(s, WordChars, TRUE)

\* s.replace(old, new), old not empty
RECURSIVE Replace(_, _, _)
Replace(s, old, new) ==
  LET at == {i \in 1..(Len(s) - Len(old) + 1) : SubSeq(s, i, i + Len(old) - 1) = old}
  IN IF at = {} THEN s
     ELSE LET i == SetMin(at)
          IN SubSeq(s, 1, i - 1) \o new \o Replace(SubSeq(s, i + Len(old), Len(s)), old, new)

\* sep.join(items)
RECURSIVE Join(_, _)
Join(items, sep) ==
  IF Len(items) = 0 THEN ""
  ELSE IF Len(items) = 1 THEN items[1]
  ELSE items[1] \o sep \o Join(Tail(items), sep)

\* the text of length n that repeats the unit u
RECURSIVE Fill(_, _)
Fill(u, n) ==
  IF n <= 0 THEN ""
  ELSE IF n <= Len(u) THEN SubSeq(u, 1, n)
  ELSE u \o Fill(u, n - Len(u))

\* the elements of a sequence
Range(f) == {f[i] : i \in DOMAIN f}

(***************************************************************************)
(* The tables of the agent.                                                *)
(***************************************************************************)
\* self.platforms
platforms == <<"twitter">>

\* topics of get_fallback_topics
fallback_topics ==
  << "technology advancements", "sustainable living", "health breakthroughs", "remote work productivity",
     "digital marketing strategies", "AI ethics", "climate solutions", "entrepreneurship tips",
     "financial literacy", "productivity hacks", "mental health awareness", "educational innovations",
     "technological innovation", "sustainable travel", "nutrition science", "fitness trends",
     "stress management", "influential books", "film analysis", "music production",
     "ethical fashion", "photography techniques", "sports science", "home organization",
     "sustainable gardening", "pet health", "effective parenting", "career development",
     "data privacy", "renewable energy", "medical research", "space exploration" >>

post_types == <<"informative", "question", "statistic", "tip", "news", "opinion", "resource">>

\* self.image_database, in the order of its keys
image_database ==
  << [category |-> "technology", urls |->
        << "https://images.unsplash.com/photo-1518770660439-4636190af475",
           "https://images.unsplash.com/photo-1526374965328-7f61d4dc18c5",
           "https://images.unsplash.com/photo-1504384764586-bb4cdc1707b0" >>]
   , [category |-> "health", urls |->
        << "https://images.unsplash.com/photo-1505576399279-565b52d4ac71",
           "https://images.unsplash.com/photo-1498837167922-ddd27525d352",
           "https://images.unsplash.com/photo-1506126613408-eca07ce68773" >>]
   , [category |-> "business", urls |->
        << "https://images.unsplash.com/photo-1560472355-536de3962603",
           "https://images.unsplash.com/photo-1486406146926-c627a92ad1ab",
           "https://images.unsplash.com/photo-1507679799987-c73779587ccf" >>]
   , [category |-> "nature", urls |->
        << "https://images.unsplash.com/photo-1470071459604-3b5ec3a7fe05",
           "https://images.unsplash.com/photo-1441974231531-c6227db76b6e",
           "https://images.unsplash.com/photo-1472214103451-9374bd1c798e" >>]
   , [category |-> "travel", urls |->
        << "https://images.unsplash.com/photo-1500835556837-99ac94a94552",
           "https://images.unsplash.com/photo-1476514525535-07fb3b4ae5f1",
           "https://images.unsplash.com/photo-1502602898657-3e91760cbb34" >>]
   , [category |-> "food", urls |->
        << "https://images.unsplash.com/photo-1504674900247-0877df9cc836",
           "https://images.unsplash.com/photo-1512621776951-a57141f2eefd",
           "https://images.unsplash.com/photo-1476224203421-9ac39bcb3327" >>]
   , [category |-> "sports", urls |->
        << "https://images.unsplash.com/photo-1461896836934-ffe607ba8211",
           "https://images.unsplash.com/photo-1517649763962-0c623066013b",
           "https://images.unsplash.com/photo-1541534741688-6078c6bfb5c5" >>]
   , [category |-> "education", urls |->
        << "https://images.unsplash.com/photo-1503676260728-1c00da094a0b",
           "https://images.unsplash.com/photo-1523050854058-8df90110c9f1",
           "https://images.unsplash.com/photo-1509062522246-3755977927d7" >>]
   , [category |-> "finance", urls |->
        << "https://images.unsplash.com/photo-1565514020179-026b92b4a5b0",
           "https://images.unsplash.com/photo-1579170053380-58a5b2c13ff6",
           "https://images.unsplash.com/photo-1620714223084-8fcacc6dfd8d" >>]
   , [category |-> "science", urls |->
        << "https://images.unsplash.com/photo-1507668077129-56e32842523b",
           "https://images.unsplash.com/photo-1564325724739-bae0bd08762c",
           "https://images.unsplash.com/photo-1532094349884-543bc11b234d" >>]
   , [category |-> "default", urls |->
        << "https://images.unsplash.com/photo-1496449903678-68ddcb189a24",
           "https://images.unsplash.com/photo-1522199755839-a2bacb67c546",
           "https://images.unsplash.com/photo-1554774853-d50f9c681ae2" >>] >>

\* stats_by_category of get_stats_for_topic, in the order of its keys
stats_by_category ==
  << [category |-> "technology", stats_list |->
        << "90% of the world's data has been created in the last two years",
           "There are over 5 billion smartphone users worldwide",
           "The average person touches their phone 2,617 times a day" >>]
   , [category |-> "health", stats_list |->
        << "Regular exercise can reduce the risk of major illnesses by up to 50%",
           "Drinking water can increase energy levels by up to 30%",
           "Laughing 100 times is equivalent to 15 minutes of exercise on a stationary bike" >>]
   , [category |-> "business", stats_list |->
        << "65% of entrepreneurs start their businesses at home",
           "It takes an average of 3 years for a startup to become profitable",
           "42% of startups fail because there's no market need for their product" >>]
   , [category |-> "climate", stats_list |->
        << "The last decade was the warmest on record",
           "Sea levels have risen by about 8-9 inches since 1880",
           "The Earth's average temperature has increased by 1.1~~C since the pre-industrial era" >>]
   , [category |-> "social media", stats_list |->
        << "Users spend an average of 2.5 hours per day on social platforms",
           "There are over 4.2 billion active social media users globally",
           "72% of the public uses some type of social media" >>]
   , [category |-> "ai", stats_list |->
        << "The AI market is projected to reach $190 billion by 2025",
           "AI adoption in businesses has grown by 270% in the past four years",
           "70% of customer interactions involve AI like chatbots or virtual assistants" >>] >>

\* templates of generate_content_fallback: each is pre {topic} mid {topic.replace(' ', '')}
templates ==
  [ informative |->
      << [pre |-> "~~~~ Did you know? Here's an interesting fact about ",
          mid |-> " that most people don't realize. Learning about this changed my perspective! #informative #"],
         [pre |-> "~~~ Understanding ",
          mid |-> " is essential in today's world. Here's what you need to know and why it matters. Have you explored this topic before? #knowledgeshare #"] >>
  , question |->
      << [pre |-> "~~~~ What's your experience with ",
          mid |-> "? I'm curious to hear different perspectives on this important topic! #discussion #"],
         [pre |-> "~~ If you could change one thing about ",
          mid |-> ", what would it be and why? Share your thoughts below! #feedback #"] >>
  , statistic |->
      << [pre |-> "~~~~ Surprising statistic: The latest research on ",
          mid |-> " shows significant developments. Did you expect these numbers? #data #"],
         [pre |-> "~~~~ The numbers don't lie: ",
          mid |-> " is changing rapidly. Here's what the latest data reveals about where things are headed. What do these trends mean for you? #statistics #"] >>
  , tip |->
      << [pre |-> "~~~~ Pro tip for ",
          mid |-> ": This approach can save you time and improve results. What strategies have worked for you? #helpful #"],
         [pre |-> "~~~ Quick tip that improved my approach to ",
          mid |-> ": This simple change made a significant difference. What tips would you add? #productivity #"] >>
  , news |->
      << [pre |-> "~~~~ Breaking update on ",
          mid |-> ": Recent developments are changing how we understand this issue. What's your take on these changes? #update #"],
         [pre |-> "~~~~ Just in: Important news about ",
          mid |-> " that everyone should know. How might this affect your approach? #currentevents #"] >>
  , opinion |->
      << [pre |-> "~~~~ My perspective on ",
          mid |-> ": After researching this topic, I've come to an interesting conclusion. Do you agree or see it differently? #perspective #"],
         [pre |-> "~~~~ Unpopular opinion about ",
          mid |-> ": This viewpoint challenges conventional wisdom but deserves consideration. Where do you stand on this? #thoughtleadership #"] >>
  , resource |->
      << [pre |-> "~~~~ Just discovered an excellent resource on ",
          mid |-> " that's worth checking out. What resources have you found helpful? #useful #"],
         [pre |-> "~~~~ For anyone interested in ",
          mid |-> ", this comprehensive guide covers everything you need to know. What other resources would you recommend? #learning #"] >> ]

(***************************************************************************)
(* get_relevant_image_url (app.py:442-470).                                *)
(***************************************************************************)
\* the entry of the image table for a category
ImageEntry(category) == CHOOSE e \in Range(image_database) : e.category = category

\* the entries whose category name is a substring of the lower-cased topic
ExactMatches(topic_lower) ==
  {i \in DOMAIN image_database : Contains(topic_lower, Lower(image_database[i].category))}

\* a partial-match loop that skips nothing
PartialCandidateAny(category) == TRUE

\* whether the partial-match loop visits an entry: it skips "default"
PartialCandidate(category) == category # "default"

\* the entries some word of the topic is a substring of, or contains
PartialMatches(topic_lower) ==
  LET words == FindWordSet(topic_lower)
  IN {i \in DOMAIN image_database :
        /\ PartialCandidate(image_database[i].category)
        /\ \E word \in words :
             \/ Contains(image_database[i].category, word)
             \/ Contains(word, image_database[i].category)}

\* a selection that compares the topic as given, without lower-casing it
SelectImageCategoryCaseSensitive(topic) ==
  LET exact == ExactMatches(topic)
      partial == PartialMatches(topic)
  IN IF exact # {}
     THEN [category |-> image_database[SetMin(exact)].category, via |-> "exact"]
     ELSE IF partial # {}
     THEN [category |-> image_database[SetMin(partial)].category, via |-> "partial"]
     ELSE [category |-> "default", via |-> "default"]

\* the category the function selects, and the step that selected it
SelectImageCategory(topic) ==
  LET topic_lower == Lower(topic)
      exact == ExactMatches(topic_lower)
      partial == PartialMatches(topic_lower)
  IN IF exact # {}
     THEN [category |-> image_database[SetMin(exact)].category, via |-> "exact"]
     ELSE IF partial # {}
     THEN [category |-> image_database[SetMin(partial)].category, via |-> "partial"]
     ELSE [category |-> "default", via |-> "default"]

\* the values get_relevant_image_url(topic) may return: random.choice(urls)
GetRelevantImageUrl(topic) ==
  LET sel == SelectImageCategory(topic)
  IN {[status |-> "done", topic |-> topic, category |-> sel.category, via |-> sel.via,
       url |-> url] :
        url \in Range(ImageEntry(sel.category).urls)}

(***************************************************************************)
(* Content generation (app.py:472-782).                                    *)
(***************************************************************************)
TwitterMax == 250

FacebookMax == 400

InstagramMax == 300

DefaultMax == 300

\* one maximum for every platform
MaxLengthUniform(platform) == FacebookMax

\* max_length of a platform: the same table in the three strategies
MaxLength(platform) ==
  CASE platform = "twitter" -> TwitterMax
    [] platform = "facebook" -> FacebookMax
    [] platform = "instagram" -> InstagramMax
    [] OTHER -> DefaultMax

\* a truncation that keeps one character too many
TruncateOffByOne(content, max_length) ==
  IF Len(content) > max_length
  THEN Slice(content, max_length - 2) \o "..."
  ELSE content

\* "Ensure we don't exceed platform character limits": the same two lines in
\* the three strategies
Truncate(content, max_length) ==
  IF Len(content) > max_length
  THEN Slice(content, max_length - 3) \o "..."
  ELSE content

\* platform_desc of generate_content_huggingface
PlatformDesc(platform) ==
  CASE platform = "twitter" -> "tweet"
    [] platform = "facebook" -> "Facebook post"
    [] platform = "instagram" -> "Instagram caption"
    [] OTHER -> "social media post"

\* what fetch_news_for_topic may return: no article, or articles of which the
\* callers read the first
NewsOutcomes ==
  { <<>>,
    <<[title |-> "Agency publishes annual report", url |-> "https://news.example.com/a/1"]>> }

\* the values get_stats_for_topic(topic) may return
GetStatsForTopic(topic) ==
  LET topic_lower == Lower(topic)
      hit == {i \in DOMAIN stats_by_category :
                \/ Contains(topic_lower, stats_by_category[i].category)
                \/ \E word \in SplitSet(topic_lower) :
                     Contains(stats_by_category[i].category, word)}
  IN IF hit = {} THEN {None} ELSE Range(stats_by_category[SetMin(hit)].stats_list)

\* a strategy that picks its category whether or not one was given
PostTypeChoicesAny(post_type) == Range(post_types)

\* post_type as the strategies resolve it: random when not given
PostTypeChoices(post_type) == IF post_type = None THEN Range(post_types) ELSE {post_type}

\* image_url of a result
ImageUrlChoices(topic, include_image) ==
  IF include_image THEN {i.url : i \in GetRelevantImageUrl(topic)} ELSE {None}

\* the dictionary a strategy returns, with what the model records about the call
Result(topic, platform, post_type, raw, image_url, news_data, strategy, calls) ==
  [ status |-> "done",
    topic |-> topic,
    platform |-> platform,
    text |-> Truncate(raw, MaxLength(platform)),
    image_url |-> image_url,
    post_type |-> post_type,
    article_url |-> IF Len(news_data) > 0 /\ post_type = "news" THEN news_data[1].url ELSE None,
    strategy |-> strategy,
    calls |-> calls,
    raw |-> raw ]

NoContent ==
  [ status |-> "none", topic |-> "", platform |-> "", text |-> "", image_url |-> None,
    post_type |-> None, article_url |-> None, strategy |-> None, calls |-> <<>>, raw |-> "" ]

\* a rendered template
Render(template, topic) == template.pre \o topic \o template.mid \o Replace(topic, " ", "")

\* generate_content_fallback: the set of results it may return
GenerateContentFallback(topic, platform, include_image, post_type) ==
  LET urls == ImageUrlChoices(topic, include_image)
  IN UNION { UNION { UNION {
       { Result(topic, platform, pt, Render(templates[pt][k], topic), image_url, news_data,
                "fallback", <<>>) :
           news_data \in IF pt = "news" THEN NewsOutcomes ELSE {<<>>} } :
         image_url \in urls } :
         k \in DOMAIN templates[pt] } :
         pt \in PostTypeChoices(post_type) }

\* a result with a backend call recorded before it
AfterCall(backend, results) == {[r EXCEPT !.calls = <<backend>> \o @] : r \in results}

\* the lengths of the texts a backend answers with, for a platform maximum m
LlmLengths(m) == (1..Slack) \cup ((m - Slack)..(m + Slack)) \cup {m + Over}

\* the texts: one with a hashtag, a question and white space around it, one
\* with neither
LlmTexts(m) ==
  UNION { { " \n" \o Fill("Big news on #ai today? ", n - 1) \o ".\n ",
            Fill("plain words only ", n - 1) \o "." } : n \in LlmLengths(m) }

\* what the Gemini call of lines 551-552 may do: raise, or answer a text
GeminiOutcomes(platform) ==
  {[ok |-> FALSE, text |-> ""], [ok |-> TRUE, text |-> ""]}
    \cup {[ok |-> TRUE, text |-> t] : t \in LlmTexts(MaxLength(platform))}

\* generate_content_gemini: the set of results it may return.  The news
\* headline and the statistic only enter the prompt; of news_data the result
\* reads the first article's url, for a news post.
GenerateContentGemini(topic, platform, include_image, post_type) ==
  IF ~gemini_model
  THEN GenerateContentFallback(topic, platform, include_image, post_type)
  ELSE LET urls == ImageUrlChoices(topic, include_image)
       IN UNION { UNION {
            IF ~response.ok
            THEN AfterCall("gemini",
                           GenerateContentFallback(topic, platform, include_image, pt))
            ELSE UNION {
              { Result(topic, platform, pt, Strip(response.text), image_url, news_data,
                       "gemini", <<"gemini">>) :
                  news_data \in IF pt = "news" THEN NewsOutcomes ELSE {<<>>} } :
                image_url \in urls } :
              response \in GeminiOutcomes(platform) } :
              pt \in PostTypeChoices(post_type) }

\* prompts_by_type of generate_content_huggingface
HfPrompt(topic, platform, post_type, stat, news_data) ==
  LET platform_desc == PlatformDesc(platform)
  IN CASE post_type = "informative" ->
            "Write an informative " \o platform_desc \o " about " \o topic \o " with valuable facts:"
       [] post_type = "question" ->
            "Write a " \o platform_desc \o " with a thought-provoking question about " \o topic \o ":"
       [] post_type = "statistic" ->
            "Write a " \o platform_desc \o " about " \o topic \o " with this statistic: "
              \o (IF stat = None THEN "an interesting statistic" ELSE stat) \o ":"
       [] post_type = "tip" ->
            "Write a " \o platform_desc \o " with a useful tip about " \o topic \o ":"
       [] post_type = "news" ->
            "Write a " \o platform_desc \o " about this " \o topic \o " news: "
              \o (IF Len(news_data) > 0 THEN news_data[1].title ELSE "recent developments") \o ":"
       [] post_type = "opinion" ->
            "Write a " \o platform_desc \o " with a thoughtful perspective on " \o topic \o ":"
       [] post_type = "resource" ->
            "Write a " \o platform_desc \o " sharing a valuable resource about " \o topic \o ":"
       [] OTHER ->
            "Write an informative " \o platform_desc \o " about " \o topic \o ":"

\* what the Hugging Face call of lines 622-629 may do: raise (no list in the
\* answer), or answer a generated text, which may repeat the prompt
HfOutcomes(platform, prompt_text) ==
  {[ok |-> FALSE, generated_text |-> ""], [ok |-> TRUE, generated_text |-> prompt_text]}
    \cup {[ok |-> TRUE, generated_text |-> t] : t \in LlmTexts(MaxLength(platform))}
    \cup {[ok |-> TRUE, generated_text |-> prompt_text \o t] : t \in LlmTexts(MaxLength(platform))}

\* "Add hashtags if needed" (lines 631-641)
AddHashtags(content, topic) ==
  IF \E tag \in SplitSet(content) : StartsWith(tag, "#")
  THEN content
  ELSE LET topic_words == FindWords(topic)
           hashtags == SelectSeq(topic_words, LAMBDA word : Len(word) > 3)
           tagged == [i \in DOMAIN hashtags |-> "#" \o hashtags[i]]
       IN IF Len(hashtags) > 0
          THEN content \o "\n\n" \o Join(SubSeq(tagged, 1, Min(2, Len(tagged))), " ")
          ELSE content

engagement_questions ==
  << "What do you think?",
     "Have you experienced this?",
     "What's your take on this?",
     "How does this impact you?",
     "Would you like to learn more about this topic?" >>

\* "Add engagement element if missing" (lines 643-652): the set of outcomes
AddEngagement(content, post_type) ==
  IF ~Contains(content, "?") /\ post_type # "question"
  THEN {content \o " " \o q : q \in Range(engagement_questions)}
  ELSE {content}

\* generate_content_huggingface: the set of results it may return
GenerateContentHuggingface(topic, platform, include_image, post_type) ==
  LET urls == ImageUrlChoices(topic, include_image)
      stats == GetStatsForTopic(topic)
  IN UNION { UNION { UNION {
       LET prompt_text == HfPrompt(topic, platform, pt, stat, news_data)
       IN UNION {
            IF ~response.ok
            THEN AfterCall("huggingface",
                           GenerateContentFallback(topic, platform, include_image, pt))
            ELSE LET content == Strip(Replace(response.generated_text, prompt_text, ""))
                 IN UNION {
                      { Result(topic, platform, pt, final, image_url, news_data,
                               "huggingface", <<"huggingface">>) :
                          image_url \in urls } :
                        final \in AddEngagement(AddHashtags(content, topic), pt) } :
              response \in HfOutcomes(platform, prompt_text) } :
         stat \in IF pt = "statistic" THEN stats ELSE {None} } :
         news_data \in IF pt = "news" THEN NewsOutcomes ELSE {<<>>} } :
         pt \in PostTypeChoices(post_type) }

\* a generation that tries Hugging Face whether or not its key is set
GenerateContentIgnoringKeys(topic, platform, include_image) ==
  UNION { GenerateContentHuggingface(topic, platform, include_image, post_type) :
            post_type \in Range(post_types) }

\* generate_content: the set of results it may return
GenerateContent(topic, platform, include_image) ==
  UNION {
    IF gemini_model /\ google_key
    THEN GenerateContentGemini(topic, platform, include_image, post_type)
    ELSE IF hf_key
    THEN GenerateContentHuggingface(topic, platform, include_image, post_type)
    ELSE GenerateContentFallback(topic, platform, include_image, post_type) :
      post_type \in Range(post_types) }

\* the topics generation is called with
GenTopics == {"AI ethics", "technology trends 2024", Fill("sustainable remote work and ", 120)}

\* the platforms generation is called with; "linkedin" is any other platform
Platforms == {"twitter", "facebook", "instagram", "linkedin"}

(***************************************************************************)
(* Trend discovery (app.py:176-272, 384-440).                              *)
(***************************************************************************)
TrendMaxLen == 50

TopN == 10

\* what the trends API and the scraped page may hold
TrendPool ==
  { "", "#AI", "World Cup", "https://t.co/abc", "httpd tips", "ftp://files.example.com/x",
    Fill("a trend of forty-nine characters ", 49), Fill("a trend of fifty characters ", 50) }

\* a list longer than the ten items the strategies keep
TwelveTrends == [i \in 1..12 |-> "trend " \o CharAt(LowerLetters, i)]

RawTrendLists == UNION {[1..n -> TrendPool] : n \in 0..MaxTrends} \cup {TwelveTrends}

\* an external call raises, or answers a list
ApiOutcomes == {[ok |-> FALSE, items |-> <<>>]} \cup {[ok |-> TRUE, items |-> l] : l \in RawTrendLists}

\* get_twitter_trends: an exception is caught and gives []
GetTwitterTrends(outcome) == IF ~outcome.ok THEN <<>> ELSE Slice(outcome.items, TopN)

\* the texts of the tweets the recent search may answer with
TweetPool ==
  { "Loving the #WorldCup final, wow",
    "New phone, great camera",
    "https://t.co/abc new post",
    "#AI",
    "a b, a bc",
    "twenty nine characters phrase, phrase of thirty characters ok" }

SearchOutcomes ==
  {[ok |-> FALSE, data |-> <<>>]}
    \cup {[ok |-> TRUE, data |-> d] : d \in UNION {[1..n -> TweetPool] : n \in 0..MaxTweets}}

\* the pieces of s.split(',')
SplitCommaSet(s) ==
  LET cuts == {0, Len(s) + 1} \cup {i \in 1..Len(s) : CharAt(s, i) = ","}
  IN {SubSeq(s, a + 1, SetMin({b \in cuts : b > a}) - 1) : a \in cuts \ {Len(s) + 1}}

\* the words of a tweet that start with '#'
TweetHashtags(text) == {word \in SplitSet(text) : StartsWith(word, "#")}

\* the pieces of a tweet between its commas, lower-cased and stripped
CleanPhrases(text) == {Strip(phrase) : phrase \in SplitCommaSet(Lower(text))}

\* a phrase test that includes the lengths 3 and 30
TweetPhrasesInclusive(text) ==
  {clean_phrase \in CleanPhrases(text) :
     3 <= Len(clean_phrase) /\ Len(clean_phrase) <= 30 /\ Contains(clean_phrase, " ")}

\* the phrases of a tweet that are kept as topics
TweetPhrases(text) ==
  {clean_phrase \in {Strip(phrase) : phrase \in SplitCommaSet(Lower(text))} :
     3 < Len(clean_phrase) /\ Len(clean_phrase) < 30 /\ Contains(clean_phrase, " ")}

\* the lists that enumerate a set, each element once: list(set(...)) has no fixed order
Orderings(S) ==
  {f \in [1..Cardinality(S) -> S] : \A i, j \in 1..Cardinality(S) : i # j => f[i] # f[j]}

\* get_twitter_trends_v2: the lists it may return
GetTwitterTrendsV2(outcome) ==
  IF ~twitter_api \/ ~outcome.ok \/ Len(outcome.data) = 0
  THEN {<<>>}
  ELSE LET all_topics == UNION {TweetHashtags(outcome.data[i]) \cup TweetPhrases(outcome.data[i]) :
                                  i \in DOMAIN outcome.data}
       IN {Slice(unique_topics, TopN) : unique_topics \in Orderings(all_topics)}

\* get_twitter_trends_scraping: an exception is caught and gives []
GetTwitterTrendsScraping(outcome) == IF ~outcome.ok THEN <<>> ELSE Slice(outcome.items, TopN)

\* a sample that may take a topic twice
GetFallbackTopicsWithReplacement ==
  LET n == Len(fallback_topics)
  IN {[i \in 1..k |-> fallback_topics[((start - 1 + (i - 1) * stride) % n) + 1]] :
        k \in 3..5, start \in 1..n, stride \in 0..MaxStride}

\* get_fallback_topics: random.sample(topics, random.randint(3, 5)), of which
\* the model draws the samples that step through the list
GetFallbackTopics ==
  LET n == Len(fallback_topics)
  IN {[i \in 1..k |-> fallback_topics[((start - 1 + (i - 1) * stride) % n) + 1]] :
        k \in 3..5, start \in 1..n, stride \in 1..MaxStride}

\* the test of the filter loop (lines 430-435)
KeepTrend(item) == item # "" /\ Len(item) < TrendMaxLen /\ ~StartsWith(item, "http")

FilterTrends(all_trends) == SelectSeq(all_trends, KeepTrend)

NoTrends ==
  [ status |-> "none", invoked |-> <<>>, returns |-> <<>>, all_trends |-> <<>>,
    returned |-> <<>>, raised |-> FALSE ]

\* what fetch_trends returns when it invoked the strategies `invoked` and they
\* returned `returns`: twitter_trends is what the last one returned.  The
\* filtered list is also stored in self.trending_topics, which nothing reads.
TrendResult(invoked, returns) ==
  LET twitter_trends == IF Len(returns) = 0 THEN <<>> ELSE returns[Len(returns)]
  IN [ status |-> "done",
       invoked |-> invoked,
       returns |-> returns,
       all_trends |-> twitter_trends,
       returned |-> FilterTrends(twitter_trends),
       raised |-> FALSE ]

\* a chain that invokes every strategy and keeps the first list that is not empty
FetchTrendsEager ==
  UNION { UNION { UNION {
    { TrendResult(<<"api_v1", "api_v2", "scraping", "fallback">>,
                  <<t1, t2, t3, IF Len(t1) > 0 THEN t1 ELSE IF Len(t2) > 0 THEN t2
                                ELSE IF Len(t3) > 0 THEN t3 ELSE t4>>) :
        t4 \in GetFallbackTopics } :
      t3 \in {GetTwitterTrendsScraping(o) : o \in ApiOutcomes} } :
      t2 \in UNION {GetTwitterTrendsV2(o) : o \in SearchOutcomes} } :
      t1 \in {GetTwitterTrends(o) : o \in ApiOutcomes} }

\* fetch_trends: the set of results it may return
FetchTrends ==
  IF "twitter" \notin Range(platforms)
  THEN {TrendResult(<<>>, <<>>)}
  ELSE UNION {
    IF Len(t1) > 0 THEN {TrendResult(<<"api_v1">>, <<t1>>)}
    ELSE UNION {
      IF Len(t2) > 0 THEN {TrendResult(<<"api_v1", "api_v2">>, <<t1, t2>>)}
      ELSE UNION {
        IF Len(t3) > 0 THEN {TrendResult(<<"api_v1", "api_v2", "scraping">>, <<t1, t2, t3>>)}
        ELSE {TrendResult(<<"api_v1", "api_v2", "scraping", "fallback">>, <<t1, t2, t3, t4>>) :
                t4 \in GetFallbackTopics} :
          t3 \in {GetTwitterTrendsScraping(o) : o \in ApiOutcomes} } :
        t2 \in UNION {GetTwitterTrendsV2(o) : o \in SearchOutcomes} } :
      t1 \in {GetTwitterTrends(o) : o \in ApiOutcomes} }

(***************************************************************************)
(* Scheduling (app.py:1235-1280, 1338-1390, 1417-1421, 1474-1487).         *)
(***************************************************************************)
\* self.production_schedule as __init__ sets it
DefaultSchedule ==
  [ weekday_times |-> <<"09:00", "14:00", "18:00">>,
    weekend_times |-> <<"11:00", "15:00", "19:00">> ]

\* the time lists set_production_schedule is called with
TimeLists == {<<>>, <<"08:00">>, <<"10:00", "16:00">>}

Weekdays == <<"monday", "tuesday", "wednesday", "thursday", "friday">>

WeekendDays == <<"saturday", "sunday">>

\* schedule.every().<unit>.at(<at>).do(<do>)
Job(unit, at, do) == [unit |-> unit, at |-> at, do |-> do]

RECURSIVE Flatten(_)
Flatten(seqs) == IF Len(seqs) = 0 THEN <<>> ELSE Head(seqs) \o Flatten(Tail(seqs))

\* one job a day for a time slot
OneJobPerSlot(time_slot) == <<Job("day", time_slot, "run_daily_post")>>

\* the jobs one weekday time slot registers
WeekdayJobs(time_slot) == [d \in DOMAIN Weekdays |-> Job(Weekdays[d], time_slot, "run_daily_post")]

\* the jobs one weekend time slot registers
WeekendJobs(time_slot) == [d \in DOMAIN WeekendDays |-> Job(WeekendDays[d], time_slot, "run_daily_post")]

AnalyticsJob == Job("day", "23:00", "analyze_post_performance")

\* a clear that leaves the jobs registered
KeepRegistered(registered) == registered

\* schedule.clear()
ScheduleClear(registered) == <<>>

\* what run_production_mode leaves registered
ScheduledJobs(registered, schedule) ==
  ScheduleClear(registered)
    \o Flatten([i \in DOMAIN schedule.weekday_times |-> WeekdayJobs(schedule.weekday_times[i])])
    \o Flatten([i \in DOMAIN schedule.weekend_times |-> WeekendJobs(schedule.weekend_times[i])])
    \o <<AnalyticsJob>>

\* a thread that runs run_scheduler and is about to test its loop condition
NewThread == [pc |-> "check", due |-> 0, stop_seen |-> FALSE]

\* run_production_mode
RunProductionMode ==
  IF mode # "production"
  THEN /\ last_op' = "run_production_mode refused"
       /\ UNCHANGED <<mode, is_running, production_schedule, jobs, threads>>
  ELSE /\ is_running' = TRUE
       /\ jobs' = ScheduledJobs(jobs, production_schedule)
       /\ threads' = Append(threads, NewThread)
       /\ last_op' = "run_production_mode"
       /\ UNCHANGED <<mode, production_schedule>>

\* stop_production_mode, as it acts on the flag and the jobs; stop_seen marks
\* the loops that were started before this stop and have not exited
StopEffect ==
  /\ is_running' = FALSE
  /\ jobs' = ScheduleClear(jobs)
  /\ threads' = [i \in DOMAIN threads |->
                   IF threads[i].pc = "exited" THEN threads[i]
                   ELSE [threads[i] EXCEPT !.stop_seen = TRUE]]

\* __main__ starts the posting at once when the operator answers 'y'
StartupStart ==
  /\ last_op = "init"
  /\ manual = "idle"
  /\ mode = "production"
  /\ RunProductionMode
  /\ UNCHANGED manual
  /\ UNCHANGED <<envVars, op, pubVars, mgrVars, gen, trend, img>>

\* admin_interface, choice 4
AdminStart ==
  /\ manual = "idle"
  /\ mode = "production"
  /\ ~is_running
  /\ Len(threads) < MaxThreads
  /\ RunProductionMode
  /\ UNCHANGED manual
  /\ UNCHANGED <<envVars, op, pubVars, mgrVars, gen, trend, img>>

\* run_production_mode called on an agent that is not in production mode
StartRefused ==
  /\ manual = "idle"
  /\ mode # "production"
  /\ RunProductionMode
  /\ UNCHANGED manual
  /\ UNCHANGED <<envVars, op, pubVars, mgrVars, gen, trend, img>>

\* admin_interface, choice 5: stop_production_mode
StopProductionMode ==
  /\ manual = "idle"
  /\ StopEffect
  /\ last_op' = "stop_production_mode"
  /\ UNCHANGED <<mode, production_schedule, manual>>
  /\ UNCHANGED <<envVars, op, pubVars, mgrVars, gen, trend, img>>

\* a mode switch that changes the mode and leaves the scheduler as it is
AdminSwitchModeKeepsRunning ==
  /\ manual = "idle"
  /\ UNCHANGED <<is_running, jobs, threads>>
  /\ mode' = IF mode = "testing" THEN "production" ELSE "testing"
  /\ last_op' = "switch_mode"
  /\ UNCHANGED <<production_schedule, manual>>
  /\ UNCHANGED <<envVars, op, pubVars, mgrVars, gen, trend, img>>

\* admin_interface, choice 9, confirmed
AdminSwitchMode ==
  /\ manual = "idle"
  /\ IF is_running THEN StopEffect ELSE UNCHANGED <<is_running, jobs, threads>>
  /\ mode' = IF mode = "testing" THEN "production" ELSE "testing"
  /\ last_op' = "switch_mode"
  /\ UNCHANGED <<production_schedule, manual>>
  /\ UNCHANGED <<envVars, op, pubVars, mgrVars, gen, trend, img>>

\* set_production_schedule
SetProductionSchedule ==
  /\ \E weekday_times \in TimeLists, weekend_times \in TimeLists :
       production_schedule' = [weekday_times |-> weekday_times, weekend_times |-> weekend_times]
  /\ last_op' = "set_production_schedule"
  /\ UNCHANGED <<mode, is_running, jobs, threads, manual>>
  /\ UNCHANGED <<envVars, op, pubVars, mgrVars, gen, trend, img>>

\* whether a job runs the pipeline
RunsDailyPost(job) == job.do = "run_daily_post"

\* the numbers of posting jobs a call of schedule.run_pending() may find due:
\* it collects the due jobs first and then runs them one after the other
DueCounts(registered) == 0..Min(MaxDue, Len(SelectSeq(registered, RunsDailyPost)))

\* run_scheduler tests `while self.is_running`; when it holds the thread
\* calls run_pending, which starts the first due posting job, if any, and
\* otherwise the thread sleeps
SchedulerCheck(i) ==
  /\ i \in DOMAIN threads
  /\ threads[i].pc = "check"
  /\ IF ~is_running
     THEN threads' = [threads EXCEPT ![i].pc = "exited"]
     ELSE \E n \in DueCounts(jobs) :
            threads' = [threads EXCEPT ![i].pc = IF n = 0 THEN "sleep" ELSE "posting",
                                       ![i].due = IF n = 0 THEN 0 ELSE n - 1]
  /\ UNCHANGED <<mode, is_running, production_schedule, jobs, last_op, manual>>
  /\ UNCHANGED <<envVars, op, pubVars, mgrVars, gen, trend, img>>

\* run_daily_post returns in a scheduler thread: run_pending runs the next
\* job it had collected, or returns and the thread sleeps
SchedulerPostDone(i) ==
  /\ i \in DOMAIN threads
  /\ threads[i].pc = "posting"
  /\ threads' = [threads EXCEPT ![i].pc = IF threads[i].due > 0 THEN "posting" ELSE "sleep",
                                ![i].due = IF threads[i].due > 0 THEN threads[i].due - 1 ELSE 0]
  /\ UNCHANGED <<mode, is_running, production_schedule, jobs, last_op, manual>>
  /\ UNCHANGED <<envVars, op, pubVars, mgrVars, gen, trend, img>>

\* time.sleep(60) returns
SchedulerWake(i) ==
  /\ i \in DOMAIN threads
  /\ threads[i].pc = "sleep"
  /\ threads' = [threads EXCEPT ![i].pc = "check"]
  /\ UNCHANGED <<mode, is_running, production_schedule, jobs, last_op, manual>>
  /\ UNCHANGED <<envVars, op, pubVars, mgrVars, gen, trend, img>>

SchedulerStep(i) == SchedulerCheck(i) \/ SchedulerPostDone(i) \/ SchedulerWake(i)

\* admin_interface, choice 7: the menu thread enters run_daily_post
ManualPostStart ==
  /\ manual = "idle"
  /\ manual' = "posting"
  /\ UNCHANGED <<mode, is_running, production_schedule, jobs, threads, last_op>>
  /\ UNCHANGED <<envVars, op, pubVars, mgrVars, gen, trend, img>>

\* run_daily_post returns to the menu
ManualPostDone ==
  /\ manual = "posting"
  /\ manual' = "idle"
  /\ UNCHANGED <<mode, is_running, production_schedule, jobs, threads, last_op>>
  /\ UNCHANGED <<envVars, op, pubVars, mgrVars, gen, trend, img>>

(***************************************************************************)
(* SocialMediaManager (main.py:136-190, 248-259).                          *)
(***************************************************************************)
optimal_times == <<"12:30", "15:45", "17:30">>

\* the jobs _run_scheduler registers
ManagerJobs == [k \in DOMAIN optimal_times |-> Job("day", optimal_times[k], "_scheduled_post")]

\* start_production_mode
StartProductionMode ==
  /\ IF mgr_running
     THEN UNCHANGED <<mgr_mode, mgr_running, mgr_threads>>
     ELSE /\ mgr_mode' = "production"
          /\ mgr_running' = TRUE
          /\ mgr_threads' = Append(mgr_threads, [pc |-> "register"])
  /\ Len(mgr_threads) < MaxThreads
  /\ UNCHANGED jobs
  /\ UNCHANGED <<envVars, op, pubVars, gen, trend, img>>
  /\ UNCHANGED <<mode, is_running, production_schedule, threads, last_op, manual>>

\* SocialMediaManager.stop_production_mode
ManagerStopProductionMode ==
  /\ IF ~mgr_running
     THEN UNCHANGED <<mgr_mode, mgr_running>>
     ELSE /\ mgr_running' = FALSE
          /\ mgr_mode' = "testing"
  /\ UNCHANGED <<mgr_threads, jobs>>
  /\ UNCHANGED <<envVars, op, pubVars, gen, trend, img>>
  /\ UNCHANGED <<mode, is_running, production_schedule, threads, last_op, manual>>

\* switch_mode
SwitchMode ==
  /\ IF mgr_running
     THEN UNCHANGED mgr_mode
     ELSE mgr_mode' = IF mgr_mode = "testing" THEN "production" ELSE "testing"
  /\ UNCHANGED <<mgr_running, mgr_threads, jobs>>
  /\ UNCHANGED <<envVars, op, pubVars, gen, trend, img>>
  /\ UNCHANGED <<mode, is_running, production_schedule, threads, last_op, manual>>

\* _run_scheduler registers its three jobs
ManagerRegister(i) ==
  /\ i \in DOMAIN mgr_threads
  /\ mgr_threads[i].pc = "register"
  /\ jobs' = jobs \o ManagerJobs
  /\ mgr_threads' = [mgr_threads EXCEPT ![i].pc = "check"]
  /\ UNCHANGED <<mgr_mode, mgr_running>>
  /\ UNCHANGED <<envVars, op, pubVars, gen, trend, img>>
  /\ UNCHANGED <<mode, is_running, production_schedule, threads, last_op, manual>>

\* _run_scheduler tests `while self.running`, runs the pending jobs and sleeps
ManagerCheck(i) ==
  /\ i \in DOMAIN mgr_threads
  /\ mgr_threads[i].pc = "check"
  /\ mgr_threads' = [mgr_threads EXCEPT ![i].pc = IF mgr_running THEN "sleep" ELSE "exited"]
  /\ UNCHANGED <<mgr_mode, mgr_running, jobs>>
  /\ UNCHANGED <<envVars, op, pubVars, gen, trend, img>>
  /\ UNCHANGED <<mode, is_running, production_schedule, threads, last_op, manual>>

\* time.sleep(60) returns in _run_scheduler
ManagerWake(i) ==
  /\ i \in DOMAIN mgr_threads
  /\ mgr_threads[i].pc = "sleep"
  /\ mgr_threads' = [mgr_threads EXCEPT ![i].pc = "check"]
  /\ UNCHANGED <<mgr_mode, mgr_running, jobs>>
  /\ UNCHANGED <<envVars, op, pubVars, gen, trend, img>>
  /\ UNCHANGED <<mode, is_running, production_schedule, threads, last_op, manual>>

(***************************************************************************)
(* Publishing (app.py:784-912).                                            *)
(***************************************************************************)
TweetLimit == 250

\* what the image step of post_to_twitter may meet: the download raises or
\* answers another status than 200, writing the temporary file raises, the
\* media upload raises, removing the temporary file raises, or all succeed
ImageOutcomes ==
  {"download_raises", "download_404", "write_raises", "upload_raises", "remove_raises", "ok"}

\* what create_tweet may do: raise (no tweet), answer with the tweet's id, or
\* create the tweet and answer without data
CreateOutcomes == {"raises", "ok", "malformed"}

\* a link appended whenever there is one
WithArticleUrlAlways(text, article_url) ==
  IF article_url # None /\ Len(article_url) > 0
  THEN text \o "\n" \o article_url
  ELSE text

\* "Add article URL if available (for news posts) and there's room"
WithArticleUrl(text, article_url) ==
  IF article_url # None /\ Len(article_url) > 0 /\ Len(text) + Len(article_url) + 1 <= TweetLimit
  THEN text \o "\n" \o article_url
  ELSE text

\* an image step whose exceptions are not caught where they occur
ImageStepUnguarded(image_url, image_outcome) ==
  IF image_url = None \/ Len(image_url) = 0
  THEN [media_id |-> None, tried |-> FALSE, raised |-> FALSE]
  ELSE [media_id |-> IF image_outcome = "ok" THEN "media_1" ELSE None,
        tried |-> TRUE,
        raised |-> image_outcome \notin {"ok", "download_404"}]

\* lines 800-833: media_id, and whether an exception leaves the inner try
ImageStep(image_url, image_outcome) ==
  IF image_url = None \/ Len(image_url) = 0
  THEN [media_id |-> None, tried |-> FALSE, raised |-> FALSE]
  ELSE [media_id |-> IF image_outcome \in {"ok", "remove_raises"} THEN "media_1" ELSE None,
        tried |-> TRUE,
        raised |-> FALSE]

\* a handler that catches the errors of the platform client only
OuterExceptClientOnly(attempt) ==
  IF attempt.exception = "TweepyException"
  THEN [attempt EXCEPT !.returned = FALSE, !.raised = FALSE]
  ELSE [attempt EXCEPT !.returned = FALSE, !.raised = TRUE]

\* lines 845-847: every exception of the try block is logged, and False returned
OuterExcept(attempt) == [attempt EXCEPT !.returned = FALSE, !.raised = FALSE]

\* post_to_twitter: what it returns, with what it did.  The exception is the
\* one that leaves the try block of lines 786-844, if any.
PostToTwitter(content, image_outcome, create_outcome) ==
  IF ~twitter_api
  THEN [returned |-> FALSE, raised |-> FALSE, exception |-> None, attempted |-> FALSE,
        created |-> FALSE, sent_text |-> "", media_id |-> None, image_tried |-> FALSE]
  ELSE LET text == WithArticleUrl(content.text, content.article_url)
           step == ImageStep(content.image_url, image_outcome)
           attempt ==
             IF step.raised
             THEN [returned |-> FALSE, raised |-> FALSE, exception |-> "Exception",
                   attempted |-> FALSE, created |-> FALSE, sent_text |-> "",
                   media_id |-> None, image_tried |-> step.tried]
             ELSE [returned |-> TRUE,
                   raised |-> FALSE,
                   exception |-> CASE create_outcome = "raises" -> "TweepyException"
                                   [] create_outcome = "malformed" -> "TypeError"
                                   [] OTHER -> None,
                   attempted |-> TRUE,
                   created |-> create_outcome # "raises",
                   sent_text |-> text,
                   media_id |-> step.media_id,
                   image_tried |-> step.tried]
       IN IF attempt.exception # None THEN OuterExcept(attempt) ELSE attempt

\* content_record of post_content
ContentRecord(platform, content, timestamp) ==
  [ platform |-> platform,
    content |-> content.text,
    image_url |-> content.image_url,
    post_type |-> content.post_type,
    article_url |-> content.article_url,
    timestamp |-> timestamp ]

\* a save that leaves the file as it is
SaveSkipped(history) == history_file

\* the file posted_content.json after save_posted_content
SavedFile(history) == [state |-> "ok", records |-> history]

\* self.posted_content after load_posted_content
LoadedContent(file) == IF file.state = "ok" THEN file.records ELSE <<>>

\* a record of an earlier run
OldRecord ==
  [ platform |-> "twitter", content |-> "An earlier post #old", image_url |-> None,
    post_type |-> "tip", article_url |-> None, timestamp |-> 0 ]

\* posted_content.json at start: absent, unreadable, or a list of records
StartFiles ==
  { [state |-> "absent", records |-> <<>>],
    [state |-> "corrupt", records |-> <<>>],
    [state |-> "ok", records |-> <<>>],
    [state |-> "ok", records |-> <<OldRecord>>] }

\* the content post_content is called with: what generate_content returned,
\* of which the model takes the posts of PubPostTypes with the first image
PubPostTypes == {"news"}

PubTopics == {"AI ethics"}

PubPlatforms == {"twitter", "facebook"}

FirstImageUrl(topic) == ImageEntry(SelectImageCategory(topic).category).urls[1]

PubContents(topic, platform) ==
  {[text |-> r.text, image_url |-> r.image_url, post_type |-> r.post_type,
    article_url |-> r.article_url] :
     r \in {g \in GenerateContent(topic, platform, TRUE) :
              g.post_type \in PubPostTypes /\ g.image_url = FirstImageUrl(topic)}}

NoPostToTwitter ==
  [ returned |-> FALSE, raised |-> FALSE, exception |-> None, attempted |-> FALSE,
    created |-> FALSE, sent_text |-> "", media_id |-> None, image_tried |-> FALSE ]

NoPost ==
  [ status |-> "none", platform |-> "",
    content |-> [text |-> "", image_url |-> None, post_type |-> None, article_url |-> None],
    image_outcome |-> "", create_outcome |-> "", twitter |-> NoPostToTwitter,
    called_twitter |-> FALSE, returned |-> FALSE, raised |-> FALSE ]

\* a post_content that keeps only the record of the latest post
PostContentLatestOnly(platform, content, image_outcome, create_outcome) ==
  LET twitter == IF platform = "twitter"
                 THEN PostToTwitter(content, image_outcome, create_outcome)
                 ELSE NoPostToTwitter
      success == ~twitter.raised /\ twitter.returned
  IN /\ pub' = [ status |-> "done", platform |-> platform, content |-> content,
                 image_outcome |-> image_outcome, create_outcome |-> create_outcome,
                 twitter |-> twitter,
                 called_twitter |-> platform = "twitter",
                 returned |-> success, raised |-> twitter.raised ]
     /\ IF success
        THEN /\ posted_content' = <<ContentRecord(platform, content, clock)>>
             /\ history_file' = SavedFile(posted_content')
        ELSE UNCHANGED <<posted_content, history_file>>

\* post_content(platform, content) under the given outcomes of the platform;
\* an exception of post_to_twitter would leave post_content too
PostContent(platform, content, image_outcome, create_outcome) ==
  LET twitter == IF platform = "twitter"
                 THEN PostToTwitter(content, image_outcome, create_outcome)
                 ELSE NoPostToTwitter
      success == ~twitter.raised /\ twitter.returned
  IN /\ pub' = [ status |-> "done", platform |-> platform, content |-> content,
                 image_outcome |-> image_outcome, create_outcome |-> create_outcome,
                 twitter |-> twitter,
                 called_twitter |-> platform = "twitter",
                 returned |-> success, raised |-> twitter.raised ]
     /\ IF success
        THEN /\ posted_content' = Append(posted_content, ContentRecord(platform, content, clock))
             /\ history_file' = SavedFile(posted_content')
        ELSE UNCHANGED <<posted_content, history_file>>

PostContentCall ==
  /\ pub.status = "none"
  /\ clock < MaxPosts
  /\ clock' = clock + 1
  /\ \E topic \in PubTopics, platform \in PubPlatforms :
       \E content \in PubContents(topic, platform) :
         \E image_outcome \in ImageOutcomes, create_outcome \in CreateOutcomes :
           PostContent(platform, content, image_outcome, create_outcome)
  /\ UNCHANGED <<envVars, op, gen, trend, img, schedVars, mgrVars>>

PostDropped ==
  /\ pub.status = "done"
  /\ pub' = NoPost
  /\ UNCHANGED <<posted_content, history_file, clock>>
  /\ UNCHANGED <<envVars, op, gen, trend, img, schedVars, mgrVars>>

(***************************************************************************)
(* Initial states.                                                         *)
(***************************************************************************)
GenIdle == gen = NoContent

TrendIdle == trend = NoTrends

NoImage == [status |-> "none", topic |-> "", category |-> "", via |-> "", url |-> ""]

ImgIdle == img = NoImage

SchedIdle ==
  /\ mode = "testing"
  /\ is_running = FALSE
  /\ production_schedule = DefaultSchedule
  /\ jobs = <<>>
  /\ threads = <<>>
  /\ last_op = "init"
  /\ manual = "idle"

PubIdle ==
  /\ pub = NoPost
  /\ posted_content = <<>>
  /\ history_file = [state |-> "absent", records |-> <<>>]
  /\ clock = 0

\* no operation has run yet
NoOp == [name |-> "none", status |-> "idle"]

OpIdle == op = NoOp

MgrIdle ==
  /\ mgr_mode = "testing"
  /\ mgr_running = FALSE
  /\ mgr_threads = <<>>

(***************************************************************************)
(* Generation: a caller obtains content, then drops it.                    *)
(***************************************************************************)
GenerateContentCall ==
  /\ gen.status = "none"
  /\ \E topic \in GenTopics, platform \in Platforms :
       \E r \in GenerateContent(topic, platform, TRUE) : gen' = r
  /\ UNCHANGED <<envVars, op, pubVars, mgrVars, trend, img, schedVars>>

ContentDropped ==
  /\ gen.status = "done"
  /\ gen' = NoContent
  /\ UNCHANGED <<envVars, op, pubVars, mgrVars, trend, img, schedVars>>

\* the keys are those of the environment; gemini_model is set from the key
InitGen ==
  /\ google_key \in BOOLEAN
  /\ gemini_model = google_key
  /\ hf_key \in BOOLEAN
  /\ twitter_api = TRUE
  /\ program = "app"
  /\ OpIdle
  /\ GenIdle /\ TrendIdle /\ ImgIdle /\ SchedIdle /\ PubIdle /\ MgrIdle

NextGen == GenerateContentCall \/ ContentDropped

SpecGen == InitGen /\ [][NextGen]_vars

(***************************************************************************)
(* Trend discovery: a caller fetches the trends, then drops them.          *)
(***************************************************************************)
FetchTrendsCall ==
  /\ trend.status = "none"
  /\ op = NoOp
  /\ \E r \in FetchTrends : trend' = r
  /\ UNCHANGED <<envVars, op, pubVars, mgrVars, gen, img, schedVars>>

TrendsDropped ==
  /\ trend.status = "done"
  /\ trend' = NoTrends
  /\ UNCHANGED <<envVars, op, pubVars, mgrVars, gen, img, schedVars>>

InitTrends ==
  /\ google_key = FALSE
  /\ gemini_model = FALSE
  /\ hf_key = FALSE
  /\ twitter_api \in BOOLEAN
  /\ program = "app"
  /\ OpIdle
  /\ GenIdle /\ TrendIdle /\ ImgIdle /\ SchedIdle /\ PubIdle /\ MgrIdle

\* a call of get_twitter_trends_v2 by itself, with what the search answered
GetTwitterTrendsV2Call ==
  /\ trend.status = "none"
  /\ op = NoOp
  /\ \E outcome \in SearchOutcomes :
       \E result \in GetTwitterTrendsV2(outcome) :
         op' = [name |-> "get_twitter_trends_v2", status |-> "done",
                outcome |-> outcome, result |-> result]
  /\ UNCHANGED <<envVars, pubVars, mgrVars, gen, trend, img, schedVars>>

\* the caller drops what the operation returned
OpDropped ==
  /\ op.status = "done"
  /\ op' = NoOp
  /\ UNCHANGED <<envVars, pubVars, mgrVars, gen, trend, img, schedVars>>

NextTrends == FetchTrendsCall \/ TrendsDropped \/ GetTwitterTrendsV2Call \/ OpDropped

SpecTrends == InitTrends /\ [][NextTrends]_vars

(***************************************************************************)
(* Image lookup: a caller asks for an image, then drops it.                *)
(***************************************************************************)
ImageWords == {"Technology", "tech", "SPORT", "xyzabc123", "fault", "default", "trends", "2024"}

ImageTopics ==
  {Join(ws, " ") : ws \in UNION {[1..n -> ImageWords] : n \in 1..MaxTopicWords}}
    \cup {"", "technology trends 2024", "Healthcare & Finance!"}

GetRelevantImageUrlCall ==
  /\ img.status = "none"
  /\ \E topic \in ImageTopics :
       \E r \in GetRelevantImageUrl(topic) : img' = r
  /\ UNCHANGED <<envVars, op, pubVars, mgrVars, gen, trend, schedVars>>

ImageDropped ==
  /\ img.status = "done"
  /\ img' = NoImage
  /\ UNCHANGED <<envVars, op, pubVars, mgrVars, gen, trend, schedVars>>

InitImage ==
  /\ google_key = FALSE
  /\ gemini_model = FALSE
  /\ hf_key = FALSE
  /\ twitter_api = TRUE
  /\ program = "app"
  /\ OpIdle
  /\ GenIdle /\ TrendIdle /\ ImgIdle /\ SchedIdle /\ PubIdle /\ MgrIdle

NextImage == GetRelevantImageUrlCall \/ ImageDropped

SpecImage == InitImage /\ [][NextImage]_vars

(***************************************************************************)
(* Scheduling: the operator's commands and the scheduler threads.          *)
(***************************************************************************)
InitSched ==
  /\ google_key = FALSE
  /\ gemini_model = FALSE
  /\ hf_key = FALSE
  /\ twitter_api = TRUE
  /\ program = "app"
  /\ OpIdle
  /\ GenIdle /\ TrendIdle /\ ImgIdle /\ PubIdle /\ MgrIdle
  /\ mode \in {"testing", "production"}
  /\ is_running = FALSE
  /\ production_schedule = DefaultSchedule
  /\ jobs = <<>>
  /\ threads = <<>>
  /\ last_op = "init"
  /\ manual = "idle"

NextSched ==
  \/ StartupStart
  \/ AdminStart
  \/ StopProductionMode
  \/ AdminSwitchMode
  \/ SetProductionSchedule
  \/ ManualPostStart
  \/ ManualPostDone
  \/ \E i \in 1..MaxThreads : SchedulerCheck(i)
  \/ \E i \in 1..MaxThreads : SchedulerPostDone(i)
  \/ \E i \in 1..MaxThreads : SchedulerWake(i)

SpecSched == InitSched /\ [][NextSched]_vars

\* every scheduler thread that can take a step eventually takes one
FairSpecSched == InitSched /\ [][NextSched]_vars /\ \A i \in 1..MaxThreads : WF_vars(SchedulerStep(i))

(***************************************************************************)
(* SocialMediaManager: the menu's commands and the manager's threads.      *)
(***************************************************************************)
InitManager ==
  /\ google_key = FALSE
  /\ gemini_model = FALSE
  /\ hf_key = FALSE
  /\ twitter_api = TRUE
  /\ program = "main"
  /\ OpIdle
  /\ GenIdle /\ TrendIdle /\ ImgIdle /\ PubIdle /\ SchedIdle /\ MgrIdle

NextManager ==
  \/ StartProductionMode
  \/ ManagerStopProductionMode
  \/ SwitchMode
  \/ \E i \in 1..MaxThreads : ManagerRegister(i)
  \/ \E i \in 1..MaxThreads : ManagerCheck(i)
  \/ \E i \in 1..MaxThreads : ManagerWake(i)

SpecManager == InitManager /\ [][NextManager]_vars

(***************************************************************************)
(* Either controller: the agent under its admin interface, or the manager  *)
(* under its menu.                                                         *)
(***************************************************************************)
InitControllers ==
  /\ google_key = FALSE
  /\ gemini_model = FALSE
  /\ hf_key = FALSE
  /\ twitter_api = TRUE
  /\ program \in {"app", "main"}
  /\ OpIdle
  /\ GenIdle /\ TrendIdle /\ ImgIdle /\ PubIdle /\ MgrIdle
  /\ mode \in IF program = "app" THEN {"testing", "production"} ELSE {"testing"}
  /\ is_running = FALSE
  /\ production_schedule = DefaultSchedule
  /\ jobs = <<>>
  /\ threads = <<>>
  /\ last_op = "init"
  /\ manual = "idle"

NextControllers ==
  \/ program = "app" /\ (NextSched \/ StartRefused)
  \/ program = "main" /\ NextManager

SpecControllers == InitControllers /\ [][NextControllers]_vars

(***************************************************************************)
(* Publishing: content is posted, the result is dropped.                   *)
(***************************************************************************)
InitPub ==
  /\ google_key \in BOOLEAN
  /\ gemini_model = google_key
  /\ hf_key = FALSE
  /\ twitter_api \in BOOLEAN
  /\ program = "app"
  /\ OpIdle
  /\ GenIdle /\ TrendIdle /\ ImgIdle /\ SchedIdle /\ MgrIdle
  /\ pub = NoPost
  /\ history_file \in StartFiles
  /\ posted_content = LoadedContent(history_file)
  /\ clock = 0

NextPub == PostContentCall \/ PostDropped

SpecPub == InitPub /\ [][NextPub]_vars

(***************************************************************************)
(* The agent and the manager at their menus: the startup load, the test    *)
(* operations, the pipeline cycle and the commands that start, stop and    *)
(* switch (app.py:914-958, 1180-1233, 1423-1503; main.py:22-134, 192-218). *)
(***************************************************************************)
\* the agent was constructed and load_posted_content has not run yet
Startup == [name |-> "startup", status |-> "idle"]

\* the emergency list of run_daily_post
emergency_topics == <<"social media", "digital marketing", "technology">>

\* a cycle that goes on with the list fetch_trends returned, empty or not
TrendsOrNothing(fetched) == fetched

\* the list run_daily_post selects from
TrendsOrEmergency(fetched) == IF Len(fetched) = 0 THEN emergency_topics ELSE fetched

\* open and json.load of load_posted_content: the exception they raise, or
\* the value of the file
ReadFile(file) ==
  IF file.state = "absent" THEN [exception |-> "FileNotFoundError", value |-> <<>>]
  ELSE IF file.state = "corrupt" THEN [exception |-> "JSONDecodeError", value |-> <<>>]
  ELSE [exception |-> None, value |-> file.records]

\* a load that handles the missing file only
LoadPostedContentMissingOnly(file) ==
  LET read == ReadFile(file)
  IN IF read.exception = None THEN [raised |-> None, history |-> read.value]
     ELSE IF read.exception = "FileNotFoundError" THEN [raised |-> None, history |-> <<>>]
     ELSE [raised |-> read.exception, history |-> posted_content]

\* load_posted_content: the exception that leaves it and self.posted_content
\* after it
LoadPostedContent(file) ==
  LET read == ReadFile(file)
  IN IF read.exception = None THEN [raised |-> None, history |-> read.value]
     ELSE IF read.exception = "FileNotFoundError" THEN [raised |-> None, history |-> <<>>]
     ELSE [raised |-> None, history |-> <<>>]

\* load_posted_content, called once after construction
LoadPostedContentCall ==
  /\ op = Startup
  /\ LET load == LoadPostedContent(history_file)
     IN /\ posted_content' = load.history
        /\ op' = [name |-> "load_posted_content", status |-> "done", file |-> history_file,
                  raised |-> load.raised]
  /\ UNCHANGED <<pub, history_file, clock>>
  /\ UNCHANGED <<envVars, gen, trend, img, schedVars, mgrVars>>

\* run_daily_post up to the selection of the topic; random.choice of an
\* empty list raises IndexError, which nothing in run_daily_post catches
RunDailyPostTopic ==
  /\ op = NoOp
  /\ pub.status = "none"
  /\ clock < MaxPosts
  /\ \E r \in FetchTrends :
       LET trends == TrendsOrEmergency(r.returned)
       IN IF Len(trends) = 0
          THEN op' = [name |-> "run_daily_post", status |-> "done", fetched |-> r.returned,
                      trends |-> trends, selected_trend |-> None, raised |-> TRUE, k |-> 1]
          ELSE \E selected_trend \in Range(trends) :
                 op' = [name |-> "run_daily_post", status |-> "selected", fetched |-> r.returned,
                        trends |-> trends, selected_trend |-> selected_trend, raised |-> FALSE,
                        k |-> 1]
  /\ UNCHANGED <<envVars, pubVars, gen, trend, img, schedVars, mgrVars>>

\* run_daily_post, one round of its loop over self.platforms: content is
\* generated for the selected topic and posted
RunDailyPostPlatform ==
  /\ op.name = "run_daily_post"
  /\ op.status = "selected"
  /\ pub.status = "none"
  /\ LET platform == platforms[op.k]
     IN \E content \in PubContents(op.selected_trend, platform) :
          \E image_outcome \in ImageOutcomes, create_outcome \in CreateOutcomes :
            PostContent(platform, content, image_outcome, create_outcome)
  /\ clock' = clock + 1
  /\ op' = [name |-> "run_daily_post",
            status |-> IF op.k = Len(platforms) THEN "done" ELSE "selected",
            fetched |-> <<>>, trends |-> <<>>, selected_trend |-> op.selected_trend,
            raised |-> FALSE, k |-> op.k + 1]
  /\ UNCHANGED <<envVars, gen, trend, img, schedVars, mgrVars>>

\* the platform operations test_twitter_connection calls
ConnectionCalls == {"get_me", "search_recent_tweets"}

\* the operations fetch_trends calls
TrendCalls == {"get_place_trends", "search_recent_tweets", "requests.get"}

\* the operations post_to_twitter calls
PublishCalls == {"media_upload", "create_tweet"}

\* what test_twitter_connection may answer
ConnectionOutcomes == IF twitter_api THEN {"success", "warning", "error"} ELSE {"error"}

\* the topics test_post_creation draws from when it is given none
test_topics == <<"AI technology", "productivity tips", "health and wellness">>

\* a test that posts content for its topic
ActualPosting(topic) ==
  [ calls |-> PublishCalls,
    history |-> Append(posted_content,
                       ContentRecord("twitter",
                                     [text |-> topic, image_url |-> None, post_type |-> "news",
                                      article_url |-> None],
                                     clock)) ]

\* "Simulate posting (without actual post)": what a test does after it
\* generated content for its topic
SimulatePosting(topic) == [calls |-> {}, history |-> posted_content]

\* the result of test_post_creation for a content
CreationStatus(content) == IF Len(content.text) > 0 THEN "success" ELSE "error"

\* test_post_creation(test_topic): the results it may return
TestPostCreationResults(test_topic) ==
  {CreationStatus(content) : content \in PubContents(test_topic, "twitter")}

\* test_post_creation (agent menu, choice 2)
TestPostCreation ==
  /\ op = NoOp
  /\ pub.status = "none"
  /\ program = "app"
  /\ \E test_topic \in Range(test_topics) :
       \E result \in TestPostCreationResults(test_topic) :
         LET posting == SimulatePosting(test_topic)
         IN /\ op' = [name |-> "test_post_creation", status |-> "done", topic |-> test_topic,
                      result |-> result, calls |-> posting.calls]
            /\ posted_content' = posting.history
  /\ UNCHANGED <<pub, history_file, clock>>
  /\ UNCHANGED <<envVars, gen, trend, img, schedVars, mgrVars>>

\* test_full_post_cycle of the agent (choice 3): the connection test, then
\* test_post_creation
TestFullPostCycle ==
  /\ op = NoOp
  /\ pub.status = "none"
  /\ program = "app"
  /\ \E connection_test \in ConnectionOutcomes :
       IF connection_test # "success"
       THEN /\ op' = [name |-> "test_full_post_cycle", status |-> "done", topic |-> None,
                      result |-> connection_test, calls |-> ConnectionCalls]
            /\ UNCHANGED posted_content
       ELSE \E test_topic \in Range(test_topics) :
              \E result \in TestPostCreationResults(test_topic) :
                LET posting == SimulatePosting(test_topic)
                IN /\ op' = [name |-> "test_full_post_cycle", status |-> "done",
                             topic |-> test_topic, result |-> result,
                             calls |-> ConnectionCalls \cup posting.calls]
                   /\ posted_content' = posting.history
  /\ UNCHANGED <<pub, history_file, clock>>
  /\ UNCHANGED <<envVars, gen, trend, img, schedVars, mgrVars>>

\* SocialMediaManager.test_content_generation
ManagerTestContentGeneration ==
  /\ op = NoOp
  /\ pub.status = "none"
  /\ program = "main"
  /\ LET test_topic == "artificial intelligence"
         posting == SimulatePosting(test_topic)
     IN /\ op' = [name |-> "manager.test_content_generation", status |-> "done",
                  topic |-> test_topic, result |-> "success", calls |-> posting.calls]
        /\ posted_content' = posting.history
  /\ UNCHANGED <<pub, history_file, clock>>
  /\ UNCHANGED <<envVars, gen, trend, img, schedVars, mgrVars>>

\* the topics SocialMediaManager.test_full_post_cycle may select: one of the
\* trends, or of the fallback topics when there are none
ManagerTestTopics ==
  UNION { IF Len(r.returned) > 0
          THEN Range(r.returned)
          ELSE UNION {Range(trends) : trends \in GetFallbackTopics} : r \in FetchTrends }

\* SocialMediaManager.test_full_post_cycle
ManagerTestFullPostCycle ==
  /\ op = NoOp
  /\ pub.status = "none"
  /\ pub.status = "none"
  /\ program = "main"
  /\ \E selected_topic \in ManagerTestTopics :
       LET posting == SimulatePosting(selected_topic)
       IN /\ op' = [name |-> "manager.test_full_post_cycle", status |-> "done",
                    topic |-> selected_topic, result |-> "success",
                    calls |-> TrendCalls \cup posting.calls]
          /\ posted_content' = posting.history
  /\ UNCHANGED <<pub, history_file, clock>>
  /\ UNCHANGED <<envVars, gen, trend, img, schedVars, mgrVars>>

\* the agent of app.py, or the manager of main.py with the agent it creates
InitAgent ==
  /\ google_key = FALSE
  /\ gemini_model = FALSE
  /\ hf_key = FALSE
  /\ twitter_api = TRUE
  /\ program \in {"app", "main"}
  /\ op = Startup
  /\ GenIdle /\ TrendIdle /\ ImgIdle /\ MgrIdle
  /\ mode \in IF program = "app" THEN {"testing", "production"} ELSE {"testing"}
  /\ is_running = FALSE
  /\ production_schedule = DefaultSchedule
  /\ jobs = <<>>
  /\ threads = <<>>
  /\ last_op = "init"
  /\ manual = "idle"
  /\ pub = NoPost
  /\ history_file \in StartFiles
  /\ posted_content = <<>>
  /\ clock = 0

\* the commands of the menu of the program that runs
MenuCommand ==
  /\ op = NoOp
  /\ pub.status = "none"
  /\ \/ program = "app" /\ (AdminStart \/ StopProductionMode \/ AdminSwitchMode)
     \/ program = "main" /\ (StartProductionMode \/ ManagerStopProductionMode \/ SwitchMode)

\* a pipeline cycle, started from the menu or by a due job, reaches its call
\* of post_content
CyclePost == op = NoOp /\ PostContentCall

NextAgent ==
  \/ LoadPostedContentCall
  \/ MenuCommand
  \/ CyclePost
  \/ PostDropped
  \/ TestPostCreation
  \/ TestFullPostCycle
  \/ ManagerTestContentGeneration
  \/ ManagerTestFullPostCycle
  \/ OpDropped

SpecAgent == InitAgent /\ [][NextAgent]_vars

(***************************************************************************)
(* One pipeline cycle: run_daily_post from its start to its end.           *)
(***************************************************************************)
InitCycle ==
  /\ google_key = FALSE
  /\ gemini_model = FALSE
  /\ hf_key = FALSE
  /\ twitter_api \in BOOLEAN
  /\ program = "app"
  /\ OpIdle
  /\ GenIdle /\ TrendIdle /\ ImgIdle /\ SchedIdle /\ MgrIdle
  /\ pub = NoPost
  /\ history_file = [state |-> "ok", records |-> <<OldRecord>>]
  /\ posted_content = LoadedContent(history_file)
  /\ clock = 0

NextCycle == RunDailyPostTopic \/ RunDailyPostPlatform \/ PostDropped

SpecCycle == InitCycle /\ [][NextCycle]_vars

(***************************************************************************)
(* Properties of content generation, checked under SpecGen.                *)
(***************************************************************************)
\* the platform maxima as the specification states them
StatedMax(platform) ==
  CASE platform = "twitter" -> 250
    [] platform = "facebook" -> 400
    [] platform = "instagram" -> 300
    [] OTHER -> 300

\* C1: the text a generation returns is never longer than the maximum of its
\* platform (250 twitter, 400 facebook, 300 instagram, 300 any other),
\* whichever strategy produced it.
C1_TextWithinPlatformMax ==
  gen.status = "done" => Len(gen.text) <= StatedMax(gen.platform)

\* the Hugging Face strategy produced a text longer than twitter's maximum,
\* and the text returned has exactly the maximum length
C1_Witness ==
  /\ gen.status = "done"
  /\ gen.strategy = "huggingface"
  /\ gen.platform = "twitter"
  /\ Len(gen.raw) > 250
  /\ Len(gen.text) = 250

\* C2: a text longer than the platform maximum becomes its first max-3
\* characters followed by "...", of length exactly max; a text within the
\* maximum is returned unchanged.
C2_TruncationRule ==
  gen.status = "done" =>
    LET max == StatedMax(gen.platform)
    IN IF Len(gen.raw) > max
       THEN /\ gen.text = SubSeq(gen.raw, 1, max - 3) \o "..."
            /\ Len(gen.text) = max
       ELSE gen.text = gen.raw

\* a text of 260 characters for twitter came back with 250, the first 247 kept
C2_Witness ==
  /\ gen.status = "done"
  /\ gen.platform = "twitter"
  /\ Len(gen.raw) = 260
  /\ Len(gen.text) = 250
  /\ SubSeq(gen.text, 1, 247) = SubSeq(gen.raw, 1, 247)
  /\ SubSeq(gen.text, 248, 250) = "..."

\* the seven post categories
SevenCategories ==
  {"informative", "question", "statistic", "tip", "news", "opinion", "resource"}

\* C5: with no LLM key configured, generation returns a non-empty text from
\* the static templates without calling an LLM backend, and it can do so for
\* each of the seven post categories.
C5_NoKeysStaticTemplate ==
  /\ (gen.status = "done" /\ ~google_key /\ ~hf_key) =>
       /\ Len(gen.text) > 0
       /\ gen.strategy = "fallback"
       /\ Len(gen.calls) = 0
       /\ gen.post_type \in SevenCategories
  /\ (gen.status = "none" /\ ~google_key /\ ~hf_key) =>
       \A topic \in GenTopics, platform \in Platforms :
         LET results == GenerateContent(topic, platform, TRUE)
         IN \A category \in SevenCategories :
              \E r \in results :
                r.post_type = category /\ Len(r.text) > 0 /\ Len(r.calls) = 0

\* a generation without keys returned a "resource" post from a template
C5_Witness ==
  /\ gen.status = "done"
  /\ ~google_key
  /\ ~hf_key
  /\ gen.post_type = "resource"
  /\ gen.strategy = "fallback"
  /\ Len(gen.text) > 0

(***************************************************************************)
(* Properties of trend discovery, checked under SpecTrends.                *)
(***************************************************************************)
\* C3: fetch_trends never raises and never returns an empty list, whatever
\* the three external strategies do.
C3_NeverEmpty ==
  trend.status = "done" => (~trend.raised /\ Len(trend.returned) >= 1)

\* whether s starts with a URL scheme: letters, digits, '+', '-' or '.' after
\* a first letter, followed by "://"
StartsWithUrlScheme(s) ==
  \E n \in 1..Len(s) :
    /\ Contains(UpperLetters \o LowerLetters, CharAt(s, 1))
    /\ \A i \in 1..n : Contains(UpperLetters \o LowerLetters \o Digits \o "+-.", CharAt(s, i))
    /\ StartsWith(SubSeq(s, n + 1, Len(s)), "://")

\* the candidates the specification keeps
StatedKeep(item) == item # "" /\ Len(item) < 50 /\ ~StartsWithUrlScheme(item)

\* C4: the list fetch_trends returns is the candidate list without the empty
\* strings, the strings of 50 or more characters and the strings that start
\* with a URL scheme; the order is kept and nothing else is dropped.
C4_ExactFilter ==
  trend.status = "done" => trend.returned = SelectSeq(trend.all_trends, StatedKeep)

(***************************************************************************)
(* Properties of the image lookup, checked under SpecImage.                *)
(***************************************************************************)
\* the categories whose name is a substring of the topic, letter case ignored
NamedCategories(topic) ==
  {e \in Range(image_database) : Contains(Lower(topic), Lower(e.category))}

\* the categories other than "default" that share a token with the topic
OverlapCategories(topic) ==
  {e \in Range(image_database) :
     /\ e.category # "default"
     /\ \E word \in FindWordSet(Lower(topic)) :
          Contains(e.category, word) \/ Contains(word, e.category)}

\* C6: when a category name is a substring of the topic (letter case
\* ignored), the image comes from such a category; the partial match and the
\* default are used only when no category name is a substring.
C6_ExactMatchFirst ==
  img.status = "done" =>
    /\ NamedCategories(img.topic) # {} =>
         (img.via = "exact" /\ \E e \in NamedCategories(img.topic) : img.url \in Range(e.urls))
    /\ img.via \in {"partial", "default"} => NamedCategories(img.topic) = {}

\* "technology trends 2024" got an image of the "technology" category
C6_Witness ==
  /\ img.status = "done"
  /\ img.topic = "technology trends 2024"
  /\ img.via = "exact"
  /\ img.url \in Range(ImageEntry("technology").urls)

\* C7: a topic that matches no category, by substring or by token overlap,
\* gets an image of the "default" category, and the partial-match step never
\* selects "default".
C7_DefaultFallback ==
  img.status = "done" =>
    /\ (NamedCategories(img.topic) = {} /\ OverlapCategories(img.topic) = {}) =>
         (img.category = "default" /\ img.url \in Range(ImageEntry("default").urls))
    /\ img.via = "partial" => img.category # "default"

\* "xyzabc123" got an image of the "default" category
C7_Witness ==
  /\ img.status = "done"
  /\ img.topic = "xyzabc123"
  /\ img.via = "default"
  /\ img.url \in Range(ImageEntry("default").urls)

(***************************************************************************)
(* Properties of the scheduling, checked under SpecSched and FairSpecSched.*)
(***************************************************************************)
IsPostingJob(job) == job.do = "run_daily_post"

PostingJobs == SelectSeq(jobs, IsPostingJob)

\* C8, as the specification states it: after run_production_mode the number
\* of posting jobs is the number of weekday slots plus the number of weekend
\* slots.
C8_OneJobPerSlot ==
  last_op = "run_production_mode" =>
    Len(PostingJobs) = Len(production_schedule.weekday_times) + Len(production_schedule.weekend_times)

\* C8, amended: after run_production_mode there is one posting job per
\* weekday slot for each of the five weekdays and one per weekend slot for
\* each of the two weekend days, and one analytics job besides.
C8_JobsPerSlotAndDay ==
  last_op = "run_production_mode" =>
    /\ Len(PostingJobs) = 5 * Len(production_schedule.weekday_times)
                            + 2 * Len(production_schedule.weekend_times)
    /\ Len(jobs) = Len(PostingJobs) + 1

\* a start with the schedule of __init__ registered 21 posting jobs
C8_Witness ==
  /\ last_op = "run_production_mode"
  /\ production_schedule = DefaultSchedule
  /\ Len(PostingJobs) = 21
  /\ Len(jobs) = 22

\* C9: after stop_production_mode returns, the run flag is false and no job
\* is registered with the scheduling library.
C9_StopClears ==
  last_op = "stop_production_mode" => (~is_running /\ Len(jobs) = 0)

\* a stop that followed a start
C9_Witness ==
  /\ last_op = "stop_production_mode"
  /\ \E i \in DOMAIN threads : threads[i].stop_seen
  /\ ~is_running
  /\ Len(jobs) = 0

\* C10: a polling loop that was running when stop_production_mode was called
\* eventually exits, whatever the operator does afterwards.
C10_StoppedLoopExits ==
  \A i \in 1..MaxThreads :
    (i \in DOMAIN threads /\ threads[i].stop_seen) ~> (i \in DOMAIN threads /\ threads[i].pc = "exited")

(***************************************************************************)
(* Properties of publishing, checked under SpecPub.                        *)
(***************************************************************************)
\* the outcomes in which the image download or the media upload fails
ImageFailures == {"download_raises", "download_404", "write_raises", "upload_raises"}

\* C11: when the content has an image and its download or upload fails,
\* post_to_twitter still creates the tweet, without media, and returns True
\* when that creation succeeds; whatever the image step does, a creation that
\* succeeds gives True.
C11_ImageFallback ==
  (pub.status = "done" /\ pub.called_twitter /\ twitter_api /\ pub.content.image_url # None) =>
    /\ pub.image_outcome \in ImageFailures =>
         /\ pub.twitter.attempted
         /\ pub.twitter.media_id = None
         /\ pub.create_outcome = "ok" => (pub.twitter.returned /\ pub.returned)
    /\ pub.create_outcome = "ok" => (pub.twitter.returned /\ pub.returned)

\* the media upload raised and the tweet was created without media
C11_Witness ==
  /\ pub.status = "done"
  /\ pub.content.image_url # None
  /\ pub.image_outcome = "upload_raises"
  /\ pub.create_outcome = "ok"
  /\ pub.twitter.attempted
  /\ pub.twitter.media_id = None
  /\ pub.returned

\* C12: post_to_twitter and post_content raise nothing and return a boolean,
\* which is False whenever no tweet was created, for every outcome of the
\* platform calls.
C12_NeverRaises ==
  pub.status = "done" =>
    /\ ~pub.raised
    /\ ~pub.twitter.raised
    /\ pub.returned \in BOOLEAN
    /\ pub.twitter.returned \in BOOLEAN
    /\ ~pub.twitter.created => (~pub.twitter.returned /\ ~pub.returned)

\* create_tweet answered without data: False is returned and nothing raised
C12_Witness ==
  /\ pub.status = "done"
  /\ pub.called_twitter
  /\ pub.create_outcome = "malformed"
  /\ pub.twitter.attempted
  /\ ~pub.returned
  /\ ~pub.raised

\* the record the specification describes for a call
StatedRecord(call, timestamp) ==
  [ platform |-> call.platform,
    content |-> call.content.text,
    image_url |-> call.content.image_url,
    post_type |-> call.content.post_type,
    article_url |-> call.content.article_url,
    timestamp |-> timestamp ]

C20_LinkOnlyIfRoom ==
  (pub.status = "done" /\ pub.called_twitter /\ pub.twitter.attempted) =>
    LET text == pub.content.text
        link == pub.content.article_url
    IN /\ pub.twitter.sent_text =
            IF link # None /\ Len(text) + Len(link) + 1 <= 250
            THEN text \o "\n" \o link
            ELSE text
       /\ Len(pub.twitter.sent_text) <= 250

\* a link was appended, and the text sent has at most 250 characters
C20_Witness ==
  /\ pub.status = "done"
  /\ pub.twitter.attempted
  /\ pub.content.article_url # None
  /\ pub.twitter.sent_text = pub.content.text \o "\n" \o pub.content.article_url
  /\ Len(pub.twitter.sent_text) <= 250

(***************************************************************************)
(* Order of the strategy chains, checked under SpecGen and SpecTrends.     *)
(***************************************************************************)
\* C14: generation tries Gemini, then Hugging Face, then the templates, and a
\* strategy that fails falls through to the next: a result that is not
\* Gemini's, with both keys set, has attempted Hugging Face, and a template
\* result has attempted every configured backend.
C14_ChainFallsThrough ==
  gen.status = "done" =>
    /\ gen.calls \in {<<>>, <<"gemini">>, <<"huggingface">>, <<"gemini", "huggingface">>}
    /\ (gemini_model /\ google_key /\ hf_key /\ gen.strategy # "gemini") =>
         "huggingface" \in Range(gen.calls)
    /\ gen.strategy = "fallback" =>
         /\ (gemini_model /\ google_key) => "gemini" \in Range(gen.calls)
         /\ hf_key => "huggingface" \in Range(gen.calls)

\* the order of the discovery strategies
StatedOrder == <<"api_v1", "api_v2", "scraping", "fallback">>

\* C15: trend discovery invokes its strategies in the order trends API,
\* search heuristic, scraping, static list; every strategy invoked before the
\* last returned an empty list, and the last one invoked is the static list
\* or returned a list that is not empty, which is the list taken.
C15_ShortCircuit ==
  trend.status = "done" =>
    LET n == Len(trend.invoked)
    IN /\ n \in 1..4
       /\ trend.invoked = SubSeq(StatedOrder, 1, n)
       /\ Len(trend.returns) = n
       /\ \A i \in 1..(n - 1) : Len(trend.returns[i]) = 0
       /\ n < 4 => Len(trend.returns[n]) > 0
       /\ trend.all_trends = trend.returns[n]

\* the trends API and the search gave nothing, scraping gave a list, and the
\* static list was not consulted
C15_Witness ==
  /\ trend.status = "done"
  /\ trend.invoked = <<"api_v1", "api_v2", "scraping">>
  /\ Len(trend.returns[1]) = 0
  /\ Len(trend.returns[2]) = 0
  /\ Len(trend.returns[3]) > 0
  /\ trend.all_trends = trend.returns[3]

(***************************************************************************)
(* Concurrency of the scheduling, checked under SpecSched and SpecManager. *)
(***************************************************************************)
\* the scheduler threads inside run_daily_post
PostingThreads == {i \in DOMAIN threads : threads[i].pc = "posting"}

\* C16: a manually triggered cycle and a scheduler-fired cycle never execute
\* run_daily_post at the same time: at most one thread is in it.
C16_OneCycleAtATime ==
  Cardinality(PostingThreads) + (IF manual = "posting" THEN 1 ELSE 0) <= 1

\* the polling threads that have not exited
AliveThreads == {i \in DOMAIN threads : threads[i].pc # "exited"}

\* C17: after any sequence of start and stop operations at most one
\* background polling thread is alive.
C17_OnePollingThread == Cardinality(AliveThreads) <= 1

\* whether thread i starts a pipeline cycle in a step
CycleStarts(i) ==
  /\ i \in DOMAIN threads'
  /\ threads'[i].pc = "posting"
  /\ \/ i \notin DOMAIN threads
     \/ threads[i].pc # "posting"
     \/ threads'[i].due # threads[i].due

\* C18: a stop does not interrupt a cycle in flight, and the scheduler starts
\* a cycle only while the run flag is set: none between a stop and the next
\* start.
C18_StopSuppressesOnly ==
  [][\A i \in 1..MaxThreads :
       /\ (i \in DOMAIN threads /\ threads[i].pc = "posting" /\ is_running /\ ~is_running') =>
            (threads'[i].pc = "posting" /\ threads'[i].due = threads[i].due)
       /\ CycleStarts(i) => is_running]_vars

\* C19: in SocialMediaManager each of the three daily time slots has at most
\* one registered job, however often production mode was restarted.
C19_OneJobPerSlot ==
  \A k \in DOMAIN optimal_times :
    Cardinality({j \in DOMAIN jobs : jobs[j].at = optimal_times[k]}) <= 1

(***************************************************************************)
(* The schedule configuration, checked under SpecSched.                    *)
(***************************************************************************)
\* the time slots at which the registered posting jobs of the given days fire
JobTimes(days) ==
  {jobs[j].at : j \in {k \in DOMAIN jobs : RunsDailyPost(jobs[k]) /\ jobs[k].unit \in Range(days)}}

\* C21: the running scheduler fires the pipeline at the configured times:
\* after set_production_schedule the posting jobs are those of the new time
\* lists, without a stop and a restart.
C21_ScheduleReadEachCycle ==
  is_running =>
    /\ JobTimes(Weekdays) = Range(production_schedule.weekday_times)
    /\ JobTimes(WeekendDays) = Range(production_schedule.weekend_times)

(***************************************************************************)
(* The strategies of trend discovery, checked under SpecTrends.            *)
(***************************************************************************)
\* whether the items of a list are pairwise distinct
Distinct(list) == \A i, j \in DOMAIN list : i # j => list[i] # list[j]

\* C23: get_fallback_topics returns between 3 and 5 topics, pairwise
\* distinct, each a member of the curated list.
C23_FallbackSample ==
  (trend.status = "done" /\ Len(trend.invoked) = 4) =>
    LET selected_topics == trend.returns[4]
    IN /\ Len(selected_topics) \in 3..5
       /\ Distinct(selected_topics)
       /\ Range(selected_topics) \subseteq Range(fallback_topics)

\* the fallback was reached and gave five topics
C23_Witness ==
  /\ trend.status = "done"
  /\ trend.invoked = <<"api_v1", "api_v2", "scraping", "fallback">>
  /\ Len(trend.returns[4]) = 5
  /\ trend.returned = trend.returns[4]

\* the search of get_twitter_trends_v2 answered
SearchAnswered == op.name = "get_twitter_trends_v2" /\ twitter_api /\ op.outcome.ok

\* the phrases of the answered tweets that the result holds as topics
AcceptedPhrases ==
  Range(op.result) \ UNION {TweetHashtags(op.outcome.data[i]) : i \in DOMAIN op.outcome.data}

\* the phrase test as the specification states it
StatedPhrase(phrase) == 3 <= Len(phrase) /\ Len(phrase) <= 30 /\ Contains(phrase, " ")

\* C24, as the specification states it: a trimmed, lower-cased phrase is
\* accepted exactly when its length is between 3 and 30 inclusive and it
\* contains a space; the returned list has no duplicates.
C24_PhraseRuleInclusive ==
  SearchAnswered =>
    /\ \A i \in DOMAIN op.outcome.data : \A phrase \in CleanPhrases(op.outcome.data[i]) :
         phrase \in AcceptedPhrases <=> StatedPhrase(phrase)
    /\ Distinct(op.result)

\* C24, amended: a trimmed, lower-cased phrase is accepted exactly when its
\* length is more than 3 and less than 30 (4 to 29 characters) and it
\* contains a space; the returned list has no duplicates.
C24_PhraseRuleStrict ==
  SearchAnswered =>
    /\ \A i \in DOMAIN op.outcome.data : \A phrase \in CleanPhrases(op.outcome.data[i]) :
         phrase \in AcceptedPhrases <=>
           (3 < Len(phrase) /\ Len(phrase) < 30 /\ Contains(phrase, " "))
    /\ Distinct(op.result)

\* a tweet with a phrase of 29 characters, kept, and one of 30, left out
C24_Witness ==
  /\ SearchAnswered
  /\ Len(op.outcome.data) = 1
  /\ "twenty nine characters phrase" \in Range(op.result)
  /\ "phrase of thirty characters ok" \in CleanPhrases(op.outcome.data[1])
  /\ "phrase of thirty characters ok" \notin Range(op.result)

(***************************************************************************)
(* The strategies of generation, checked under SpecGen.                    *)
(***************************************************************************)
\* a word of the text starts with '#'
HasHashtag(text) == \E tag \in SplitSet(text) : StartsWith(tag, "#")

\* C25: the text generate_content_huggingface builds from the backend's
\* answer contains a hashtag and a question, in its final, possibly
\* truncated form, for every topic and every category.
C25_HashtagAndQuestion ==
  (gen.status = "done" /\ gen.strategy = "huggingface") =>
    (HasHashtag(gen.text) /\ Contains(gen.text, "?"))

\* whether a text is one of the category's templates, rendered for the topic
RenderedFrom(category, topic, raw) ==
  \E k \in DOMAIN templates[category] : raw = Render(templates[category][k], topic)

\* C26: the category of every generated content is one of the seven
\* categories, which are those generate_content picks from; a strategy
\* called with a category returns content of that category, the template
\* strategy rendered from that category's templates.
C26_CategoryOfTheFixedSet ==
  /\ Range(post_types) = SevenCategories
  /\ gen.status = "done" =>
       /\ gen.post_type \in SevenCategories
       /\ gen.strategy = "fallback" => RenderedFrom(gen.post_type, gen.topic, gen.raw)
  /\ gen.status = "none" =>
       \A topic \in GenTopics, platform \in Platforms, category \in SevenCategories :
         \A r \in GenerateContentFallback(topic, platform, TRUE, category)
                    \cup (IF hf_key
                          THEN GenerateContentHuggingface(topic, platform, TRUE, category)
                          ELSE {})
                    \cup (IF gemini_model
                          THEN GenerateContentGemini(topic, platform, TRUE, category)
                          ELSE {}) :
           /\ r.post_type = category
           /\ r.strategy = "fallback" => RenderedFrom(category, topic, r.raw)

\* the template strategy returned an "opinion" post, rendered from the
\* second "opinion" template
C26_Witness ==
  /\ gen.status = "done"
  /\ gen.strategy = "fallback"
  /\ gen.post_type = "opinion"
  /\ gen.raw = Render(templates["opinion"][2], gen.topic)

(***************************************************************************)
(* Properties of both controllers, checked under SpecControllers.          *)
(***************************************************************************)
RunningInProduction ==
  /\ is_running => mode = "production"
  /\ mgr_running => mgr_mode = "production"

\* a step in which run_production_mode refuses to start
Refusal == mode # "production" /\ last_op' = "run_production_mode refused" /\ last_op' # last_op

\* C30: in every reachable state of the agent under its admin interface and of
\* the manager under its menu, running implies mode = "production"; a start
\* in an agent that is not in production mode leaves the run flag false and
\* registers no job.
C30_RunningImpliesProduction ==
  /\ []RunningInProduction
  /\ [][Refusal => (~is_running' /\ jobs' = jobs /\ threads' = threads)]_vars

\* the agent switched its mode while it ran, which stopped the scheduler
C30_Witness ==
  /\ program = "app"
  /\ last_op = "switch_mode"
  /\ mode = "testing"
  /\ ~is_running
  /\ \E i \in DOMAIN threads : threads[i].stop_seen

\* the manager runs, and a start was refused by the agent
C30_WitnessManager == program = "main" /\ mgr_running

C30_WitnessRefusal == last_op = "run_production_mode refused"

(***************************************************************************)
(* Properties of the pipeline cycle, checked under SpecCycle.              *)
(***************************************************************************)
InCycle == op.name = "run_daily_post"

\* the cycle has selected its topic and has not yet generated content
TopicSelected == InCycle /\ op.status = "selected" /\ op.k = 1

\* C22: every run_daily_post selects a topic: one of "social media", "digital
\* marketing", "technology" when fetch_trends returned an empty list, else a
\* member of the returned list; the cycle never aborts for lack of topics.
C22_CycleSelectsTopic ==
  /\ InCycle => ~op.raised
  /\ TopicSelected =>
       IF Len(op.fetched) = 0
       THEN op.selected_trend \in {"social media", "digital marketing", "technology"}
       ELSE op.selected_trend \in Range(op.fetched)

\* fetch_trends returned nothing and the cycle went on with an emergency topic
C22_Witness ==
  /\ InCycle
  /\ op.status = "done"
  /\ op.selected_trend = "digital marketing"
  /\ pub.status = "done"

\* a discovered topic was selected
C22_WitnessDiscovered == TopicSelected /\ Len(op.fetched) > 0

(***************************************************************************)
(* Properties of the history and of the tests, checked under SpecAgent.    *)
(***************************************************************************)
Loaded == op.name = "load_posted_content"

\* C28: load_posted_content never raises; an absent or unparseable history
\* file leaves the in-memory history empty, and a file that holds a valid
\* array makes the history equal to that array.
C28_LoadNeverRaises ==
  Loaded =>
    /\ op.raised = None
    /\ op.file.state \in {"absent", "corrupt"} => posted_content = <<>>
    /\ op.file.state = "ok" => posted_content = op.file.records

\* an unparseable file was loaded
C28_Witness == Loaded /\ op.file.state = "corrupt"

\* a file with a record was loaded
C28_WitnessRecords == Loaded /\ op.file.state = "ok" /\ Len(posted_content) = 1

TestNames ==
  {"test_post_creation", "test_full_post_cycle", "manager.test_content_generation",
   "manager.test_full_post_cycle"}

\* a step in which a test operation runs
TestStep == op = NoOp /\ op'.name \in TestNames

\* C29: test_post_creation and test_full_post_cycle of the agent and
\* test_content_generation and test_full_post_cycle of the manager never
\* publish: they call neither create_tweet nor media_upload and leave the post
\* history as it was, whatever the connection test and the generation answer.
C29_TestsNeverPublish ==
  [][TestStep => /\ op'.calls \cap PublishCalls = {}
                 /\ posted_content' = posted_content
                 /\ history_file' = history_file]_vars

\* the agent's full test succeeded with a record in the history
C29_Witness ==
  /\ op.name = "test_full_post_cycle"
  /\ op.result = "success"
  /\ posted_content = <<OldRecord>>

\* the connection test of the agent's full test failed
C29_WitnessConnection == op.name = "test_full_post_cycle" /\ op.result = "error"

\* the manager's full test ran
C29_WitnessManager == op.name = "manager.test_full_post_cycle" /\ Len(posted_content) = 2

\* new begins with old
Extends(old, new) == Len(new) >= Len(old) /\ SubSeq(new, 1, Len(old)) = old

\* a step in which post_content returns True
Published == pub' # pub /\ pub'.status = "done" /\ pub'.returned

\* C27: after the startup load the in-memory history is append-only over
\* posts, tests, start, stop and mode switches: no record is lost or changed,
\* and the history grows by exactly one record in a successful publish and in
\* no other step.
C27_AppendOnly ==
  [][op # Startup =>
       /\ Extends(posted_content, posted_content')
       /\ Len(posted_content') <= Len(posted_content) + 1
       /\ Len(posted_content') = Len(posted_content) + 1 <=> Published]_vars

\* a post was appended to a loaded record
C27_Witness ==
  /\ Len(posted_content) = 2
  /\ posted_content[1] = OldRecord
  /\ pub.status = "done"
  /\ pub.returned

\* a post failed and the history is as it was loaded
C27_WitnessFailed == pub.status = "done" /\ ~pub.returned /\ posted_content = <<OldRecord>>

\* the scheduler was started and stopped after a post
C27_WitnessMenu == Len(posted_content) = 2 /\ last_op = "stop_production_mode"

====
